---- MODULE Spec2Model ----
(***************************************************************************)
(* Model of the trial-balance reconciliation engine of                     *)
(* src/excel_processor.py (class TrialBalanceProcessor): extraction of     *)
(* account rows from a sheet, exact/fuzzy matching of account names, the   *)
(* in-place update of matched rows under suspended application settings,   *)
(* detection and append of new accounts, and the read-back verification.   *)
(*                                                                         *)
(* Text is a sequence of one-character strings, so that the string         *)
(* operations of the code (replace, strip, lower, len, startswith) are     *)
(* computed character by character.  A cell value is None, a number or a   *)
(* text.  A sheet is a sequence of rows (index = Excel row number), a row  *)
(* a sequence of cells (index = Excel column number).                      *)
(***************************************************************************)
EXTENDS Integers, Sequences, FiniteSets, TLC

VARIABLES
    upd,              \* the to-update sheet of the active workbook
    ref,              \* the reference ("correct") sheet of the active workbook
    app,              \* xw.apps.active: screen_updating, display_alerts, calculation
    fuzzy_threshold,  \* TrialBalanceProcessor.fuzzy_threshold
    res,              \* the last call and the dictionary it returned
    ops,              \* number of calls made so far
    request,          \* what the caller passes: column mappings and row ranges
    source_accounts,  \* perform_fuzzy_matching: argument
    target_accounts,  \* perform_fuzzy_matching: argument
    matches,          \* perform_fuzzy_matching: returned list
    workbook,         \* what xw.apps.active / app.books.active / wb.sheets reach
    chatbot,          \* ExcelChatBot: current_request, is_processing, its thread's runs
    calls             \* the handle_excel_request calls made so far

vars == <<upd, ref, app, fuzzy_threshold, res, ops, request,
          source_accounts, target_accounts, matches, workbook, chatbot, calls>>

----------------------------------------------------------------------------
(* Bounds of the model *)

\* data rows (below the header row) of each sheet in the initial states
DataRows == 2
\* calls made in one behaviour
MaxOps == 2
\* accounts per argument list of a direct perform_fuzzy_matching call
MaxAccounts == 2
\* the largest 0-based column index converted: 16383 is column XFD, the last
\* column of a sheet
MaxColumnIndex == 16383
\* calls of one repeated update-then-append session
MaxRuns == 5
\* handle_excel_request calls of one GUI session
MaxCalls == 3

----------------------------------------------------------------------------
(* Characters and text *)

UpperChars == <<"A","B","C","D","E","F","G","H","I","J","K","L","M",
                "N","O","P","Q","R","S","T","U","V","W","X","Y","Z">>
LowerChars == <<"a","b","c","d","e","f","g","h","i","j","k","l","m",
                "n","o","p","q","r","s","t","u","v","w","x","y","z">>

Letters == DOMAIN UpperChars

\* the lower-case and the upper-case form of every letter
LowerOf == [c \in {UpperChars[i] : i \in Letters} |->
               LowerChars[CHOOSE i \in Letters : UpperChars[i] = c]]
UpperOf == [c \in {LowerChars[i] : i \in Letters} |->
               UpperChars[CHOOSE i \in Letters : LowerChars[i] = c]]
\* the position in the alphabet of every letter, in either case
LetterIndex == [c \in DOMAIN LowerOf \cup DOMAIN UpperOf |->
                   CHOOSE i \in Letters : UpperChars[i] = c \/ LowerChars[i] = c]

IsUpper(c) == c \in DOMAIN LowerOf
IsLower(c) == c \in DOMAIN UpperOf

\* str.lower() and str.upper() on one character
LowerChar(c) == IF IsUpper(c) THEN LowerOf[c] ELSE c
UpperChar(c) == IF IsLower(c) THEN UpperOf[c] ELSE c

Lower(s) == [i \in 1..Len(s) |-> LowerChar(s[i])]
Upper(s) == [i \in 1..Len(s) |-> UpperChar(s[i])]

IsSpace(c) == c = " "

RECURSIVE LStrip(_)
LStrip(s) == IF s # <<>> /\ IsSpace(Head(s)) THEN LStrip(Tail(s)) ELSE s

RECURSIVE RStrip(_)
RStrip(s) ==
    IF s # <<>> /\ IsSpace(s[Len(s)]) THEN RStrip(SubSeq(s, 1, Len(s) - 1)) ELSE s

\* str.strip()
Strip(s) == RStrip(LStrip(s))

IsNotBar(c) == c # "|"
\* str.replace('|', '')
RemoveBar(s) == SelectSeq(s, IsNotBar)

\* CleanKey without the lower-casing
CleanKeyKeepingCase(name) == Strip(RemoveBar(name))

\* name.replace('|', '').strip().lower()
CleanKey(name) == Lower(Strip(RemoveBar(name)))

\* name.lower().strip()
LowerStripKey(name) == Strip(Lower(name))

\* ord(c) for the characters that occur in column letters
OrdA == 65
Ord(c) ==
    IF IsUpper(c) THEN OrdA + LetterIndex[c] - 1
    ELSE IF IsLower(c) THEN OrdA + 32 + LetterIndex[c] - 1
    ELSE IF c = " " THEN 32
    ELSE IF c = "1" THEN 49
    ELSE IF c = "^" THEN 94
    ELSE 124

----------------------------------------------------------------------------
(* Cell values, cells, sheets *)

None == [kind |-> "none"]
Num(n) == [kind |-> "num", v |-> n]
Str(s) == [kind |-> "str", s |-> s]

\* str(value).strip() is non-empty
HasText(value) ==
    IF value.kind = "str" THEN Strip(value.s) # <<>> ELSE TRUE

\* the labels of the columns of the grid, as Excel itself names them
ColumnLabels == << <<"A">>, <<"B">>, <<"C">>, <<"D">> >>
NCols == Len(ColumnLabels)

NoColor == 0
\* a cell: its value, Font.Bold, its fill colour, whether a write to it
\* raises (a protected cell), and which read of it raises: none, the read of
\* its value, or the read of its formatting
Cell(value, bold) ==
    [value |-> value, bold |-> bold, color |-> NoColor, locked |-> FALSE, fault |-> "none"]
LockedCell(value) ==
    [value |-> value, bold |-> FALSE, color |-> NoColor, locked |-> TRUE, fault |-> "none"]
FaultyCell(value, bold, fault) ==
    [value |-> value, bold |-> bold, color |-> NoColor, locked |-> FALSE, fault |-> fault]
EmptyCell == Cell(None, FALSE)
EmptyRow == [c \in 1..NCols |-> EmptyCell]

\* An address "<letters><row>" as the code builds it with f"{col}{row}"
Address(letters, row) == [col |-> letters, row |-> row]

\* Excel's own resolution of the letters of an address (case-insensitive):
\* the 1-based column number, 0 when the letters name no column of the grid
ExcelColumn(letters) ==
    IF \E c \in 1..NCols : ColumnLabels[c] = Upper(letters)
    THEN CHOOSE c \in 1..NCols : ColumnLabels[c] = Upper(letters)
    ELSE 0

\* sheet.cells(row, column): the cell at a 1-based row and column
CellAt(sheet, row, column) ==
    IF row \in 1..Len(sheet) /\ column \in 1..NCols THEN sheet[row][column]
    ELSE EmptyCell

\* sheet.range(address)
RangeCell(sheet, address) == CellAt(sheet, address.row, ExcelColumn(address.col))

\* sheet.used_range.last_cell.row
LastUsedRow(sheet) == Len(sheet)

\* the sheet with one cell replaced; rows between the old last row and the
\* written row come into existence empty
SetCell(sheet, row, column, cell) ==
    LET grown == [r \in 1..(IF row > Len(sheet) THEN row ELSE Len(sheet)) |->
                     IF r <= Len(sheet) THEN sheet[r] ELSE EmptyRow]
    IN  [grown EXCEPT ![row] = [@ EXCEPT ![column] = cell]]

\* WriteValue adding the number written to the number the cell holds
WriteValueAdding(sheet, row, column, v) ==
    LET old == CellAt(sheet, row, column)
    IN  SetCell(sheet, row, column,
                [old EXCEPT !.value = IF old.value.kind = "num" /\ v.kind = "num"
                                      THEN Num(old.value.v + v.v) ELSE v])

\* <cell>.value = v
WriteValue(sheet, row, column, v) ==
    SetCell(sheet, row, column, [CellAt(sheet, row, column) EXCEPT !.value = v])

\* The two sheet names of a run, and the workbook: whether an active
\* workbook is there at all, and which sheet names it resolves
ToUpdateSheet == "to_update"
CorrectSheet == "correct"
Connected == [active |-> TRUE, sheets |-> {ToUpdateSheet, CorrectSheet}]

\* xw.apps.active, app.books.active and wb.sheets[sheet_name] all succeed
SheetReachable(wb, sheet_name) == wb.active /\ sheet_name \in wb.sheets

----------------------------------------------------------------------------
(* ColumnAddressing *)

\* col_index_to_letter, the helper nested in extract_accounts_from_sheet
RECURSIVE ColIndexLoop(_, _)
ColIndexLoop(col_idx, result) ==
    IF col_idx >= 0
    THEN ColIndexLoop((col_idx \div 26) - 1, <<UpperChars[(col_idx % 26) + 1]>> \o result)
    ELSE result

\* col_index_to_letter as a plain base-26 numeral with A as the zero digit
col_index_to_letter_base26(col_idx) ==
    IF col_idx < 26 THEN <<UpperChars[col_idx + 1]>>
    ELSE IF col_idx < 26 * 26
    THEN <<UpperChars[(col_idx \div 26) + 1], UpperChars[(col_idx % 26) + 1]>>
    ELSE <<UpperChars[(col_idx \div (26 * 26)) + 1],
           UpperChars[((col_idx \div 26) % 26) + 1], UpperChars[(col_idx % 26) + 1]>>

col_index_to_letter(col_idx) == ColIndexLoop(col_idx, <<>>)

\* column_letter_to_index
RECURSIVE ColLetterLoop(_, _)
ColLetterLoop(chars, result) ==
    IF chars = <<>> THEN result
    ELSE ColLetterLoop(Tail(chars), result * 26 + (Ord(Head(chars)) - OrdA + 1))
column_letter_to_index(col_letter) == ColLetterLoop(Upper(col_letter), 0) - 1

----------------------------------------------------------------------------
(* AccountExtractor *)

\* an optional argument: <<>> is Python's None, <<n>> the number n
NoArg == <<>>
Arg(n) == <<n>>

Max2(a, b) == IF a >= b THEN a ELSE b
Min2(a, b) == IF a <= b THEN a ELSE b

\* sheet.range(address).value raises
ValueRaises(sheet, cell_address) == RangeCell(sheet, cell_address).fault = "value"

\* is_cell_bold: the bare except turns a failed read of Font.Bold into False
is_cell_bold(sheet, cell_address) ==
    IF RangeCell(sheet, cell_address).fault = "format" THEN FALSE
    ELSE RangeCell(sheet, cell_address).bold

MinNameLen == 5
StartsWithCaret(s) == s # <<>> /\ s[1] = "^"

\* RowQualifies without the test of the bold account cell
RowQualifiesIgnoringBold(sheet, account_col, row_num) ==
    LET name == RangeCell(sheet, Address(col_index_to_letter(account_col), row_num)).value
    IN  ~ (   name = None
           \/ ~HasText(name)
           \/ name.kind # "str"
           \/ Len(name.s) <= MinNameLen
           \/ StartsWithCaret(name.s))

\* The condition of the `continue` of extract_accounts_from_sheet, negated:
\* the row of the sheet is taken as an account
RowQualifies(sheet, account_col, row_num) ==
    LET account_cell_address == Address(col_index_to_letter(account_col), row_num)
        name == RangeCell(sheet, account_cell_address).value
    IN  ~ (   name = None
           \/ ~HasText(name)
           \/ is_cell_bold(sheet, account_cell_address)
           \/ name.kind # "str"
           \/ Len(name.s) <= MinNameLen
           \/ StartsWithCaret(name.s))

\* AmountOf with the amount of a bold cell read as zero
AmountOfBoldAsZero(sheet, amount_col_idx, row_num) ==
    LET amount_cell_address == Address(col_index_to_letter(amount_col_idx), row_num)
        amount_val == RangeCell(sheet, amount_cell_address).value
    IN  IF ~is_cell_bold(sheet, amount_cell_address) THEN amount_val ELSE Num(0)

\* amounts[f'amount_{j+1}'] for one amount column of a row
AmountOf(sheet, amount_col_idx, row_num) ==
    LET amount_cell_address == Address(col_index_to_letter(amount_col_idx), row_num)
        amount_val == RangeCell(sheet, amount_cell_address).value
    IN  IF ~is_cell_bold(sheet, amount_cell_address) THEN amount_val ELSE None

\* the dictionary appended to `accounts` for a qualifying row
AccountRecord(sheet, account_col, amount_cols, row_num) ==
    [row_index    |-> row_num - 1,
     excel_row    |-> row_num,
     account_name |-> RangeCell(sheet, Address(col_index_to_letter(account_col),
                                               row_num)).value.s,
     amount_1     |-> AmountOf(sheet, amount_cols[1], row_num),
     amount_2     |-> AmountOf(sheet, amount_cols[2], row_num)]

\* RowStart taking the start_row given, the header row included
RowStartAsGiven(start_row) == IF start_row # NoArg THEN start_row[1] ELSE 2

\* row_start and row_end of extract_accounts_from_sheet
RowStart(start_row) == IF start_row # NoArg THEN Max2(2, start_row[1]) ELSE 2
RowEnd(sheet, end_row) ==
    IF end_row # NoArg THEN Min2(LastUsedRow(sheet), end_row[1]) ELSE LastUsedRow(sheet)

\* a read of a value raises while the loop handles the row: the read of the
\* account name, or, once the row is taken, the read of one of its amounts
RowRaises(sheet, account_col, amount_cols, row_num) ==
    \/ ValueRaises(sheet, Address(col_index_to_letter(account_col), row_num))
    \/ /\ RowQualifies(sheet, account_col, row_num)
       /\ \E j \in 1..Len(amount_cols) :
              ValueRaises(sheet, Address(col_index_to_letter(amount_cols[j]), row_num))

\* the loop over the rows; an exception inside it is caught by the except
\* around the whole body, which returns []
RECURSIVE ExtractLoop(_, _, _, _, _, _)
ExtractLoop(sheet, account_col, amount_cols, row_num, row_end, accounts) ==
    IF row_num > row_end THEN accounts
    ELSE IF RowRaises(sheet, account_col, amount_cols, row_num) THEN <<>>
    ELSE ExtractLoop(sheet, account_col, amount_cols, row_num + 1, row_end,
             IF RowQualifies(sheet, account_col, row_num)
             THEN Append(accounts, AccountRecord(sheet, account_col, amount_cols, row_num))
             ELSE accounts)

extract_accounts_from_sheet(sheet, account_col, amount_cols, start_row, end_row) ==
    IF RowEnd(sheet, end_row) < RowStart(start_row) THEN <<>>
    ELSE ExtractLoop(sheet, account_col, amount_cols,
                     RowStart(start_row), RowEnd(sheet, end_row), <<>>)

----------------------------------------------------------------------------
(* The account names of the inputs *)

NameAccount == <<"A","c","c","o","u","n","t">>
NameSalary == <<"S","a","l","a","r","y">>
NameSalaryLower == <<"s","a","l","a","r","y">>
NameSalaryBar == <<"S","a","l","|","a","r","y">>
NameSalaryEx == <<"S","a","l","a","r","y"," ","E","x">>
NameSalaryExp == <<"S","a","l","a","r","y"," ","E","x","p">>
NameRental == <<"R","e","n","t","a","l">>
NameCash == <<"C","a","s","h">>
NameSales == <<"S","a","l","e","s">>
NameCashLower == <<"c","a","s","h">>
NameCashEquivalents ==
    <<"C","a","s","h"," ","E","q","u","i","v","a","l","e","n","t","s">>
NameTotal == <<"^","T","o","t","a","l">>
NamePadded == <<" "," ","a","b"," "," ">>
NameAR == <<"A","c","c","o","u","n","t","s"," ","R","e","c","e","i","v","a","b","l","e">>
NameARLower == Lower(NameAR)

AccountNames ==
    { NameAccount, NameSalary, NameSalaryLower, NameSalaryBar, NameSalaryEx,
      NameSalaryExp, NameRental, NameCash, NameSales, NameCashLower, NameCashEquivalents,
      NameTotal, NamePadded, NameAR, NameARLower }

----------------------------------------------------------------------------
(* FuzzyMatcher *)

\* A score is an exact fraction in lowest terms
RECURSIVE Gcd(_, _)
Gcd(a, b) == IF b = 0 THEN a ELSE Gcd(b, a % b)

Score(num, den) == [num |-> num \div Gcd(num, den), den |-> den \div Gcd(num, den)]
ScoreGreater(x, y) == x.num * y.den > y.num * x.den
ScoreAtLeast(x, n) == x.num >= n * x.den

\* One row of the longest-common-subsequence table, from the row above it:
\* cur[j + 1] is the longest common subsequence of the prefix ending in ch
\* and b[1..j], which either leaves ch out or pairs it with an equal b[k]
LcsFill(ch, b, prev) ==
    <<>> \o [j1 \in 1..(Len(b) + 1) |->
                LET pairs == {prev[k] + 1 : k \in {k \in 1..(j1 - 1) : b[k] = ch}}
                    best  == pairs \cup {prev[j1]}
                IN  CHOOSE v \in best : \A w \in best : w <= v]

RECURSIVE LcsRows(_, _, _)
LcsRows(a, b, prev) ==
    IF a = <<>> THEN prev[Len(b) + 1]
    ELSE LcsRows(Tail(a), b, LcsFill(Head(a), b, prev))

LcsLength(a, b) == LcsRows(a, b, [j \in 1..(Len(b) + 1) |-> 0])

\* fuzz.ratio of rapidfuzz, the normalized Indel similarity
\* 100 * (1 - (len(a) + len(b) - 2 * lcs) / (len(a) + len(b)))
Ratio(a, b) ==
    IF Len(a) + Len(b) = 0 THEN Score(100, 1)
    ELSE Score(200 * LcsLength(a, b), Len(a) + Len(b))

\* the ratios of the clean keys of the account names above, computed once
KnownKeys == {CleanKey(n) : n \in AccountNames}
KnownRatios == [p \in KnownKeys \X KnownKeys |-> Ratio(p[1], p[2])]

\* _similarity
Similarity(a, b) ==
    IF <<a, b>> \in DOMAIN KnownRatios THEN KnownRatios[<<a, b>>] ELSE Ratio(a, b)

ExactScore == Score(100, 1)
InitialBestScore == Score(-1, 1)

\* TargetIndexHas with the index keyed by the raw names of the targets
TargetIndexHasRawName(targets, key) ==
    \E i \in 1..Len(targets) : targets[i].account_name = key

\* TargetIndex keeping the first target stored under a key
TargetIndexFirst(targets, key) ==
    LET hits == {i \in 1..Len(targets) : CleanKey(targets[i].account_name) = key}
    IN  targets[CHOOSE i \in hits : \A k \in hits : i <= k]

\* target_index[key]: the dictionary keeps the last target stored under a key
TargetIndexHas(targets, key) ==
    \E i \in 1..Len(targets) : CleanKey(targets[i].account_name) = key
TargetIndex(targets, key) ==
    LET hits == {i \in 1..Len(targets) : CleanKey(targets[i].account_name) = key}
    IN  targets[CHOOSE i \in hits : \A k \in hits : k <= i]

\* Improves with `>=`: a later target of equal score replaces the best one
ImprovesOrTies(score, best_score) == ~ScoreGreater(best_score, score)

\* `if score > best_score`
Improves(score, best_score) == ScoreGreater(score, best_score)

\* the loop over cleaned_targets; best is [score, target], target 0 meaning None
RECURSIVE FuzzySearch(_, _, _, _)
FuzzySearch(clean_s, targets, i, best) ==
    IF i > Len(targets) THEN best
    ELSE LET score == Similarity(clean_s, CleanKey(targets[i].account_name))
         IN  FuzzySearch(clean_s, targets, i + 1,
                         IF Improves(score, best.score)
                         THEN [score |-> score, target |-> i]
                         ELSE best)

\* Accepts with a strict comparison
AcceptsAbove(best, threshold) ==
    best.target # 0 /\ best.score.num > threshold * best.score.den

\* `best_target is not None and best_score >= self.fuzzy_threshold`
Accepts(best, threshold) == best.target # 0 /\ ScoreAtLeast(best.score, threshold)

\* MatchesFor appending a match for every target that reaches the threshold
MatchesForEveryTarget(s, targets, threshold) ==
    LET clean_s == CleanKey(s.account_name)
        all == [i \in 1..Len(targets) |->
                   [source_account      |-> s,
                    target_account      |-> targets[i],
                    match_score         |->
                        Similarity(clean_s, CleanKey(targets[i].account_name)),
                    source_name_cleaned |-> clean_s,
                    target_name_cleaned |->
                        Strip(RemoveBar(targets[i].account_name))]]
        Reaches(m) == ScoreAtLeast(m.match_score, threshold)
    IN  SelectSeq(all, Reaches)

\* the matches appended for one source account: none or one
MatchesFor(s, targets, threshold) ==
    LET clean_s == CleanKey(s.account_name)
    IN  IF TargetIndexHas(targets, clean_s)
        THEN << [source_account      |-> s,
                 target_account      |-> TargetIndex(targets, clean_s),
                 match_score         |-> ExactScore,
                 source_name_cleaned |-> clean_s,
                 target_name_cleaned |-> clean_s] >>
        ELSE LET best == FuzzySearch(clean_s, targets, 1,
                                     [score |-> InitialBestScore, target |-> 0])
             IN  IF Accepts(best, threshold)
                 THEN << [source_account      |-> s,
                          target_account      |-> targets[best.target],
                          match_score         |-> best.score,
                          source_name_cleaned |-> clean_s,
                          target_name_cleaned |->
                              Strip(RemoveBar(targets[best.target].account_name))] >>
                 ELSE <<>>

\* MatchLoop taking a matched target out of the targets of the later sources
RECURSIVE MatchLoopConsuming(_, _, _, _, _)
MatchLoopConsuming(sources, targets, threshold, i, acc) ==
    IF i > Len(sources) THEN acc
    ELSE LET found == MatchesFor(sources[i], targets, threshold)
             IsFree(t) == found = <<>> \/ t # found[1].target_account
         IN  MatchLoopConsuming(sources, SelectSeq(targets, IsFree), threshold,
                                i + 1, acc \o found)

\* the loop over the source accounts: every source is matched against all
\* the targets
RECURSIVE MatchLoop(_, _, _, _, _)
MatchLoop(sources, targets, threshold, i, acc) ==
    IF i > Len(sources) THEN acc
    ELSE MatchLoop(sources, targets, threshold, i + 1,
                   acc \o MatchesFor(sources[i], targets, threshold))

perform_fuzzy_matching(sources, targets, threshold) ==
    MatchLoop(sources, targets, threshold, 1, <<>>)

----------------------------------------------------------------------------
(* VerificationPass: verify_updates_made *)

\* the item appended to failed_updates
FailedUpdate(match, column, expected, actual) ==
    [account  |-> match.source_account.account_name,
     row      |-> match.source_account.excel_row,
     column   |-> column,
     expected |-> expected,
     actual   |-> actual]

\* `if actual_value == expected`
ReadBackEqual(actual_value, expected) == actual_value = expected

\* CheckField without the test for an absent expected amount
CheckFieldAlways(sheet, match, column, expected, col_idx) ==
    LET actual_value == CellAt(sheet, match.source_account.excel_row, col_idx + 1).value
    IN  IF ReadBackEqual(actual_value, expected) THEN <<>>
        ELSE << FailedUpdate(match, column, expected, actual_value) >>

\* the check of one field of one match: the failed_updates items it adds
CheckField(sheet, match, column, expected, col_idx) ==
    IF expected # None
    THEN LET actual_value == CellAt(sheet, match.source_account.excel_row, col_idx + 1).value
         IN  IF ReadBackEqual(actual_value, expected) THEN <<>>
             ELSE << FailedUpdate(match, column, expected, actual_value) >>
    ELSE <<>>

\* the number of fields of a match that are checked at all
CheckedFields(match) ==
    (IF match.target_account.amount_1 # None THEN 1 ELSE 0)
    + (IF match.target_account.amount_2 # None THEN 1 ELSE 0)

RECURSIVE VerifyLoop(_, _, _, _, _, _, _)
VerifyLoop(sheet, ms, i, current_col_idx, prior_col_idx, verified_updates, failed_updates) ==
    IF i > Len(ms)
    THEN [verified_updates |-> verified_updates, failed_updates |-> failed_updates]
    ELSE LET f1 == CheckField(sheet, ms[i], "current_year",
                              ms[i].target_account.amount_1, current_col_idx)
             f2 == CheckField(sheet, ms[i], "prior_year",
                              ms[i].target_account.amount_2, prior_col_idx)
         IN  VerifyLoop(sheet, ms, i + 1, current_col_idx, prior_col_idx,
                        verified_updates + CheckedFields(ms[i]) - Len(f1) - Len(f2),
                        failed_updates \o f1 \o f2)

\* a read-back of the loop raises: the cell of an expected amount cannot be read
VerifyRaises(sheet, ms, current_col_idx, prior_col_idx) ==
    \E i \in 1..Len(ms) :
        \/ /\ ms[i].target_account.amount_1 # None
           /\ CellAt(sheet, ms[i].source_account.excel_row,
                     current_col_idx + 1).fault = "value"
        \/ /\ ms[i].target_account.amount_2 # None
           /\ CellAt(sheet, ms[i].source_account.excel_row,
                     prior_col_idx + 1).fault = "value"

verify_updates_made(sheet, ms, column_mapping) ==
    LET current_col_idx == column_letter_to_index(column_mapping.current_year)
        prior_col_idx == column_letter_to_index(column_mapping.prior_year)
        done == VerifyLoop(sheet, ms, 1, current_col_idx, prior_col_idx, 0, <<>>)
    IN  IF VerifyRaises(sheet, ms, current_col_idx, prior_col_idx)
        THEN [verified |-> FALSE, error |-> TRUE]
        ELSE [verified         |-> Len(done.failed_updates) = 0,
              verified_updates |-> done.verified_updates,
              failed_updates   |-> done.failed_updates]

----------------------------------------------------------------------------
(* ReconciliationEngine: update_trial_balance *)

\* the settings inside the bulk-mutation scope
Suspended == [screen_updating |-> FALSE, display_alerts |-> FALSE, calculation |-> "manual"]

\* SettingsAtExit with the restore done after the loop instead of in a finally
SettingsAtExitWithoutFinally(prev, raised) == IF raised THEN Suspended ELSE prev

\* The settings when update_trial_balance is left: the finally block assigns
\* the saved values back whether or not a write raised
SettingsAtExit(prev, raised) ==
    [screen_updating |-> prev.screen_updating,
     display_alerts  |-> prev.display_alerts,
     calculation     |-> prev.calculation]

\* a write to a protected cell raises
WriteRaises(sheet, row, column) == CellAt(sheet, row, column).locked

\* WriteAmount without the test for an absent amount
WriteAmountAlways(sheet, row, column, amt) == WriteValue(sheet, row, column, amt)

\* WriteAmount assigning the cell one row below the source row
WriteAmountBelow(sheet, row, column, amt) ==
    IF amt # None THEN WriteValue(sheet, row + 1, column, amt) ELSE sheet

\* `if amt is not None: update_sheet.cells(row, col).value = amt`
WriteAmount(sheet, row, column, amt) ==
    IF amt # None THEN WriteValue(sheet, row, column, amt) ELSE sheet
AmountRaises(sheet, row, column, amt) ==
    amt # None /\ WriteRaises(sheet, row, column)

\* the cell a write statement of the loop assigns, none for an absent amount
WrittenCell(row, column, amt) ==
    IF amt # None THEN << [row |-> row, column |-> column] >> ELSE <<>>

\* the loop over the matches: the sheet it leaves, updates_made, whether a
\* write raised and ended it, and the cells assigned, in the order of the
\* assignments
RECURSIVE ApplyMatches(_, _, _, _, _, _, _)
ApplyMatches(sheet, ms, i, current_col_num, prior_col_num, updates_made, written) ==
    IF i > Len(ms)
    THEN [sheet |-> sheet, updates_made |-> updates_made, raised |-> FALSE,
          written |-> written]
    ELSE LET source_row == ms[i].source_account.excel_row
             amt1 == ms[i].target_account.amount_1
             amt2 == ms[i].target_account.amount_2
             s1 == WriteAmount(sheet, source_row, current_col_num, amt1)
             s2 == WriteAmount(s1, source_row, prior_col_num, amt2)
             w1 == written \o WrittenCell(source_row, current_col_num, amt1)
             w2 == w1 \o WrittenCell(source_row, prior_col_num, amt2)
         IN  IF AmountRaises(sheet, source_row, current_col_num, amt1)
             THEN [sheet |-> sheet, updates_made |-> updates_made, raised |-> TRUE,
                   written |-> written]
             ELSE IF AmountRaises(s1, source_row, prior_col_num, amt2)
             THEN [sheet |-> s1, updates_made |-> updates_made, raised |-> TRUE,
                   written |-> w1]
             ELSE ApplyMatches(s2, ms, i + 1, current_col_num, prior_col_num,
                               updates_made + 1, w2)

\* MatchedTargetNames built from the source side of the matches
MatchedSourceNames(ms) ==
    {LowerStripKey(ms[i].source_account.account_name) : i \in 1..Len(ms)}

\* matched_target_names
MatchedTargetNames(ms) ==
    {LowerStripKey(ms[i].target_account.account_name) : i \in 1..Len(ms)}

\* `if clean_name not in matched_target_names`
IsNewAccount(correct_acc, ms) ==
    LowerStripKey(correct_acc.account_name) \notin MatchedTargetNames(ms)

RECURSIVE NewAccountsLoop(_, _, _, _)
NewAccountsLoop(correct_accounts, ms, i, acc) ==
    IF i > Len(correct_accounts) THEN acc
    ELSE NewAccountsLoop(correct_accounts, ms, i + 1,
             IF IsNewAccount(correct_accounts[i], ms)
             THEN Append(acc, correct_accounts[i]) ELSE acc)

NewAccounts(correct_accounts, ms) == NewAccountsLoop(correct_accounts, ms, 1, <<>>)

\* start_row / end_row taken from a row-range dictionary; end_row 0 means None
RangeStart(row_range) == IF row_range = NoArg THEN NoArg ELSE Arg(row_range[1].start_row)
RangeEnd(row_range) ==
    IF row_range = NoArg THEN NoArg
    ELSE IF row_range[1].end_row = 0 THEN NoArg ELSE Arg(row_range[1].end_row)

\* the accounts extracted from a sheet under a column mapping and a row range
ExtractMapped(sheet, cols, row_range) ==
    extract_accounts_from_sheet(sheet,
        column_letter_to_index(cols.account),
        << column_letter_to_index(cols.current_year),
           column_letter_to_index(cols.prior_year) >>,
        RangeStart(row_range), RangeEnd(row_range))

\* extract_accounts_from_sheet called with a sheet name: when the workbook or
\* the sheet cannot be reached, the except around its body returns []
ExtractNamed(wb, sheet_name, sheet, cols, row_range) ==
    IF SheetReachable(wb, sheet_name) THEN ExtractMapped(sheet, cols, row_range) ELSE <<>>

\* SheetAtExit with the writes of a loop that raised undone
SheetAtExitRestored(to_update, loop) ==
    IF loop.raised THEN to_update ELSE loop.sheet

\* the sheet when the call returns: each assignment of the loop went straight
\* to the cell, and neither the finally clause nor the handler undoes one
SheetAtExit(to_update, loop) == loop.sheet

\* `update_sheet = wb.sheets[to_update_sheet]` after the matching raises
UpdateSheetRaises(wb) == ~SheetReachable(wb, ToUpdateSheet)

\* The whole call: what it extracted and matched, the sheet and the settings
\* it leaves, and the dictionary it returns
update_trial_balance(wb, to_update, correct, settings, threshold, to_update_cols, correct_cols, to_update_row_range, correct_row_range) ==
    LET to_update_accounts ==
            ExtractNamed(wb, ToUpdateSheet, to_update, to_update_cols, to_update_row_range)
        correct_accounts ==
            ExtractNamed(wb, CorrectSheet, correct, correct_cols, correct_row_range)
        ms == perform_fuzzy_matching(to_update_accounts, correct_accounts, threshold)
        current_col_num == column_letter_to_index(to_update_cols.current_year) + 1
        prior_col_num == column_letter_to_index(to_update_cols.prior_year) + 1
        loop == IF UpdateSheetRaises(wb)
                THEN [sheet |-> to_update, updates_made |-> 0, raised |-> FALSE,
                      written |-> <<>>]
                ELSE ApplyMatches(to_update, ms, 1, current_col_num, prior_col_num,
                                  0, <<>>)
        new_accounts == NewAccounts(correct_accounts, ms)
    IN  [to_update_accounts |-> to_update_accounts,
         correct_accounts   |-> correct_accounts,
         matches            |-> ms,
         raised             |-> loop.raised,
         written            |-> loop.written,
         sheet              |-> SheetAtExit(to_update, loop),
         settings           |-> SettingsAtExit(settings, loop.raised),
         result             |->
             IF UpdateSheetRaises(wb) \/ loop.raised
             THEN [status       |-> "error",
                   verification |-> [verified |-> FALSE]]
             ELSE [status             |-> "success",
                   updates_made       |-> loop.updates_made,
                   matches_found      |-> Len(ms),
                   new_accounts_found |-> Len(new_accounts),
                   matches            |-> ms,
                   new_accounts       |-> new_accounts,
                   verification       |->
                       IF loop.updates_made > 0
                       THEN verify_updates_made(loop.sheet, ms, to_update_cols)
                       ELSE [verified |-> TRUE]]]

----------------------------------------------------------------------------
(* NewAccountAppender: add_new_accounts and verify_accounts_added *)

\* sheet.range(f"{col}{row}").value = v
WriteRange(sheet, letters, row, v) == WriteValue(sheet, row, ExcelColumn(letters), v)

\* AppendRow counting from the header row instead of the last used row
AppendRowBelowHeader(last_row, i) == 1 + i

\* AppendRow with the cursor advanced after the write instead of before it
AppendRowAfterWrite(last_row, i) == last_row + i - 1

\* the row the loop gives to the i-th account: `last_row += 1` once per account
AppendRow(last_row, i) == last_row + i

\* the writes of one account at its row
WriteAccount(sheet, account, column_mapping, row) ==
    LET s0 == WriteRange(sheet, column_mapping.account, row, Str(account.account_name))
        s1 == IF account.amount_1 # None
              THEN WriteRange(s0, column_mapping.current_year, row, account.amount_1)
              ELSE s0
    IN  IF account.amount_2 # None
        THEN WriteRange(s1, column_mapping.prior_year, row, account.amount_2)
        ELSE s1

RECURSIVE AppendLoop(_, _, _, _, _)
AppendLoop(sheet, new_accounts, column_mapping, last_row, i) ==
    IF i > Len(new_accounts) THEN sheet
    ELSE AppendLoop(WriteAccount(sheet, new_accounts[i], column_mapping,
                                 AppendRow(last_row, i)),
                    new_accounts, column_mapping, last_row, i + 1)

\* cell.color = 65535; cell.api.Font.Bold = True
HighlightColor == 65535
\* HighlightCell setting the colour only
HighlightCellColorOnly(sheet, letters, row) ==
    SetCell(sheet, row, ExcelColumn(letters),
            [CellAt(sheet, row, ExcelColumn(letters)) EXCEPT !.color = HighlightColor])

HighlightCell(sheet, letters, row) ==
    SetCell(sheet, row, ExcelColumn(letters),
            [CellAt(sheet, row, ExcelColumn(letters))
                EXCEPT !.color = HighlightColor, !.bold = TRUE])

HighlightRow(sheet, column_mapping, row) ==
    HighlightCell(
        HighlightCell(
            HighlightCell(sheet, column_mapping.account, row),
            column_mapping.current_year, row),
        column_mapping.prior_year, row)

RECURSIVE HighlightLoop(_, _, _, _)
HighlightLoop(sheet, column_mapping, highlighted_rows, i) ==
    IF i > Len(highlighted_rows) THEN sheet
    ELSE HighlightLoop(HighlightRow(sheet, column_mapping, highlighted_rows[i]),
                       column_mapping, highlighted_rows, i + 1)

\* Where the highlighting block raises: nowhere, at its first cell, or at
\* wb.save() after every cell was highlighted
HighlightFaults == {"none", "first_cell", "save"}

\* SheetLeft with the appended rows taken back when the highlighting raises
SheetLeftRolledBack(sheet, written, marked, highlighted_rows, fault) ==
    IF highlighted_rows = <<>> THEN written
    ELSE IF fault = "none" THEN marked
    ELSE sheet

\* The sheet when add_new_accounts returns: the except of the highlighting
\* block only builds the partial_success result, so the rows written stay,
\* with the highlighting done before the statement that raised
SheetLeft(sheet, written, marked, highlighted_rows, fault) ==
    IF highlighted_rows = <<>> \/ fault = "first_cell" THEN written ELSE marked

\* missing_accounts of verify_accounts_added
RECURSIVE MissingLoop(_, _, _, _)
MissingLoop(expected_accounts, current_names, i, missing) ==
    IF i > Len(expected_accounts) THEN missing
    ELSE MissingLoop(expected_accounts, current_names, i + 1,
             IF CleanKey(expected_accounts[i].account_name) \in current_names
             THEN missing
             ELSE Append(missing, expected_accounts[i].account_name))

verify_accounts_added(sheet, expected_accounts, column_mapping, row_range) ==
    LET current_accounts == ExtractMapped(sheet, column_mapping, row_range)
        current_names == {CleanKey(current_accounts[i].account_name) :
                             i \in 1..Len(current_accounts)}
        missing_accounts == MissingLoop(expected_accounts, current_names, 1, <<>>)
        verified_count == Len(expected_accounts) - Len(missing_accounts)
    IN  [verified         |-> verified_count = Len(expected_accounts),
         expected_count   |-> Len(expected_accounts),
         verified_count   |-> verified_count,
         missing_accounts |-> missing_accounts]

\* The whole call: the sheet it leaves and the dictionary it returns
add_new_accounts(wb, sheet, new_accounts, column_mapping, row_range, fault) ==
    LET last_row == LastUsedRow(sheet)
        highlighted_rows == [i \in 1..Len(new_accounts) |-> AppendRow(last_row, i)]
        accounts_added == Len(new_accounts)
        written == AppendLoop(sheet, new_accounts, column_mapping, last_row, 1)
        marked == HighlightLoop(written, column_mapping, highlighted_rows, 1)
        failed == highlighted_rows # <<>> /\ fault # "none"
        left == SheetLeft(sheet, written, marked, highlighted_rows, fault)
    IN  IF ~SheetReachable(wb, ToUpdateSheet)
        THEN [sheet |-> sheet, result |-> [status |-> "error"]]
        ELSE
        [sheet  |-> left,
         result |->
             IF failed
             THEN [status           |-> "partial_success",
                   accounts_added   |-> accounts_added,
                   highlighted_rows |-> highlighted_rows]
             ELSE [status           |-> "success",
                   accounts_added   |-> accounts_added,
                   highlighted_rows |-> highlighted_rows,
                   verification     |->
                       verify_accounts_added(left, new_accounts, column_mapping,
                                             row_range)]]

----------------------------------------------------------------------------
(* The GUI worker ExcelChatBot, a QThread: handle_excel_request and run *)

\* self.current_request = None
NoRequest == [type |-> "None", data |-> 0]

\* the object after __init__, its thread not started
IdleChatBot == [current_request |-> NoRequest, is_processing |-> FALSE, runs |-> <<>>]

\* the request types run dispatches on
RequestTypes == {"analyze_structure", "chat", "perform_update"}

\* {'type': request_type, 'data': data or {}}: a new dictionary at every call,
\* its data known by the number of the call that made it
NewRequest(request_type, call) == [type |-> request_type, data |-> call]

\* QThread.isRunning(): from start() until the thread has finished, which is
\* after run has returned
IsRunning(bot) == \E k \in 1..Len(bot.runs) : bot.runs[k].pc # "finished"

\* `if not self.isRunning(): self.start()`
StartIfNotRunning(bot) ==
    IF ~IsRunning(bot)
    THEN [bot EXCEPT !.runs = Append(@, [pc |-> "started", request_type |-> "None",
                                         data |-> 0])]
    ELSE bot

----------------------------------------------------------------------------
(* Inputs: sheets, settings, thresholds, requests *)

\* a row of a sheet: account name in column A, amounts in columns B and C
Row(name_cell, b_cell, c_cell) ==
    [c \in 1..NCols |-> IF c = 1 THEN name_cell
                        ELSE IF c = 2 THEN b_cell
                        ELSE IF c = 3 THEN c_cell
                        ELSE EmptyCell]

HeaderRow == Row(Cell(Str(NameAccount), FALSE),
                 Cell(Str(<<"C","Y">>), FALSE), Cell(Str(<<"P","Y">>), FALSE))

\* rows of the to-update sheet
UpdRows ==
    { Row(Cell(Str(NameSalary), FALSE), Cell(None, FALSE), Cell(Num(5), FALSE)),
      Row(Cell(Str(NameSalaryEx), FALSE), Cell(Num(1), FALSE), LockedCell(Num(2))),
      Row(Cell(Str(NameSalaryExp), FALSE), Cell(Num(7), FALSE), Cell(None, FALSE)) }

\* rows of the reference sheet
RefRows ==
    { Row(Cell(Str(NameSalaryLower), FALSE), Cell(Num(7), FALSE), Cell(Num(6), TRUE)),
      Row(Cell(Str(NameSalaryBar), FALSE), Cell(None, FALSE), Cell(Num(8), FALSE)),
      Row(Cell(Str(NameRental), FALSE), Cell(Num(3), FALSE), Cell(Num(4), FALSE)) }

\* rows that exercise the inclusion policy of the extraction
PolicyRows ==
    { Row(Cell(Str(NameSalary), FALSE), Cell(Num(7), FALSE), Cell(Num(2), TRUE)),
      Row(Cell(Str(NameSalary), TRUE), Cell(Num(1), FALSE), Cell(Num(2), FALSE)),
      Row(Cell(Str(NameCash), FALSE), Cell(Num(1), TRUE), Cell(Num(2), FALSE)),
      Row(Cell(Str(NameSales), FALSE), Cell(Num(1), FALSE), Cell(Num(2), FALSE)),
      Row(Cell(Str(NameTotal), FALSE), Cell(Num(1), FALSE), Cell(Num(2), FALSE)),
      Row(Cell(Str(NamePadded), FALSE), Cell(Num(1), FALSE), Cell(Num(2), FALSE)),
      Row(Cell(Str(<<" ">>), FALSE), Cell(Num(1), FALSE), Cell(Num(2), FALSE)),
      Row(Cell(Num(123456), FALSE), Cell(None, FALSE), Cell(Num(2), FALSE)),
      Row(Cell(None, FALSE), Cell(Num(1), FALSE), Cell(None, FALSE)) }

SheetsOf(rows) == { <<HeaderRow>> \o body : body \in [1..DataRows -> rows] }

\* the sheets of the end-to-end scenario: 'Accounts Receivable' at row 5 with
\* both amounts empty; 'accounts receivable' with current 2500 and prior 2100
ScenarioUpd ==
    << HeaderRow, EmptyRow, EmptyRow, EmptyRow,
       Row(Cell(Str(NameAR), FALSE), Cell(None, FALSE), Cell(None, FALSE)) >>
ScenarioRef ==
    << HeaderRow,
       Row(Cell(Str(NameARLower), FALSE), Cell(Num(2500), FALSE), Cell(Num(2100), FALSE)) >>

Normal == [screen_updating |-> TRUE, display_alerts |-> TRUE, calculation |-> "automatic"]

DefaultThreshold == 80

ColsABC == [account |-> <<"A">>, current_year |-> <<"B">>, prior_year |-> <<"C">>]
ColsACB == [account |-> <<"a">>, current_year |-> <<"C">>, prior_year |-> <<"B">>]

RequestDefault ==
    [to_update_cols |-> ColsABC, correct_cols |-> ColsABC,
     to_update_row_range |-> NoArg, correct_row_range |-> NoArg,
     append_row_range |-> NoArg]
RequestRanges ==
    [to_update_cols |-> ColsACB, correct_cols |-> ColsABC,
     to_update_row_range |-> Arg([start_row |-> 1, end_row |-> 0]),
     correct_row_range |-> Arg([start_row |-> 2, end_row |-> 9]),
     append_row_range |-> Arg([start_row |-> 2, end_row |-> 3])]

\* the settings of the application, the threshold of the processor and the
\* request of the caller
Sessions ==
    { [app |-> Normal, fuzzy_threshold |-> DefaultThreshold, request |-> RequestDefault],
      [app |-> Suspended, fuzzy_threshold |-> 76, request |-> RequestRanges] }

NoCall == [op |-> "none"]

----------------------------------------------------------------------------
(* The workbook under update_trial_balance and add_new_accounts *)

InSession ==
    \E session \in Sessions :
        /\ app = session.app
        /\ fuzzy_threshold = session.fuzzy_threshold
        /\ request = session.request

Init ==
    /\ \/ upd \in SheetsOf(UpdRows) /\ ref \in SheetsOf(RefRows)
       \/ upd = ScenarioUpd /\ ref = ScenarioRef
    /\ InSession
    /\ res = NoCall
    /\ ops = 0
    /\ source_accounts = <<>>
    /\ target_accounts = <<>>
    /\ matches = <<>>
    /\ workbook = Connected
    /\ chatbot = IdleChatBot
    /\ calls = <<>>

UpdateTrialBalance ==
    /\ ops < MaxOps
    /\ \E r \in {update_trial_balance(workbook, upd, ref, app, fuzzy_threshold,
                    request.to_update_cols, request.correct_cols,
                    request.to_update_row_range, request.correct_row_range)} :
           /\ upd' = r.sheet
           /\ app' = r.settings
           /\ res' = [op     |-> "update",
                      after  |-> res.op,
                      before |-> [upd |-> upd, app |-> app, ref |-> ref],
                      seen   |-> [to_update_accounts |-> r.to_update_accounts,
                                  correct_accounts   |-> r.correct_accounts,
                                  matches            |-> r.matches,
                                  raised             |-> r.raised,
                                  written            |-> r.written],
                      out    |-> r.result]
    /\ ops' = ops + 1
    /\ UNCHANGED <<ref, fuzzy_threshold, request,
                   source_accounts, target_accounts, matches, workbook,
                   chatbot, calls>>

\* the lists add_new_accounts is called with: the new_accounts of the update
\* that has just succeeded, else the accounts of the reference sheet
AppendInputs ==
    IF res.op = "update" /\ res.out.status = "success"
    THEN {res.out.new_accounts}
    ELSE {ExtractNamed(workbook, CorrectSheet, ref,
                       request.correct_cols, request.correct_row_range)}

AddNewAccounts ==
    /\ ops < MaxOps
    /\ \E new_accounts \in AppendInputs, fault \in HighlightFaults :
          \E r \in {add_new_accounts(workbook, upd, new_accounts, request.to_update_cols,
                                     request.append_row_range, fault)} :
              /\ upd' = r.sheet
              /\ res' = [op     |-> "add",
                         after  |-> res.op,
                         before |-> [upd |-> upd, app |-> app, ref |-> ref],
                         args   |-> [new_accounts |-> new_accounts, fault |-> fault],
                         out    |-> r.result]
    /\ ops' = ops + 1
    /\ UNCHANGED <<ref, app, fuzzy_threshold, request,
                   source_accounts, target_accounts, matches, workbook,
                   chatbot, calls>>

Next == UpdateTrialBalance \/ AddNewAccounts

Spec == Init /\ [][Next]_vars

----------------------------------------------------------------------------
(* Direct calls of the read-only operations on a workbook *)

InitRead ==
    /\ upd \in SheetsOf(PolicyRows \cup UpdRows)
    /\ ref \in SheetsOf({ Row(Cell(Str(NameSalaryLower), FALSE),
                              Cell(Num(7), FALSE), Cell(Num(6), TRUE)) })
    /\ InSession
    /\ res = NoCall
    /\ ops = 0
    /\ source_accounts = <<>>
    /\ target_accounts = <<>>
    /\ matches = <<>>
    /\ workbook = Connected
    /\ chatbot = IdleChatBot
    /\ calls = <<>>

\* start_row and end_row of a direct extract_accounts_from_sheet call
RowBounds ==
    { [start_row |-> NoArg, end_row |-> NoArg],
      [start_row |-> Arg(1), end_row |-> Arg(2)],
      [start_row |-> Arg(3), end_row |-> NoArg],
      [start_row |-> Arg(3), end_row |-> Arg(2)] }

ExtractAccounts ==
    /\ \E bounds \in RowBounds :
          \E out \in {extract_accounts_from_sheet(upd,
                          column_letter_to_index(request.to_update_cols.account),
                          << column_letter_to_index(request.to_update_cols.current_year),
                             column_letter_to_index(request.to_update_cols.prior_year) >>,
                          bounds.start_row, bounds.end_row)} :
              res' = [op |-> "extract", args |-> bounds, out |-> out]
    /\ UNCHANGED <<upd, ref, app, fuzzy_threshold, ops, request,
                   source_accounts, target_accounts, matches, workbook,
                   chatbot, calls>>

\* verify_updates_made called with the matches between the two sheets as they are
VerifyUpdatesMade ==
    /\ \E ms \in {perform_fuzzy_matching(
                      ExtractMapped(upd, request.to_update_cols, NoArg),
                      ExtractMapped(ref, request.correct_cols, NoArg),
                      fuzzy_threshold)} :
          \E out \in {verify_updates_made(upd, ms, request.to_update_cols)} :
              res' = [op |-> "verify", args |-> [matches |-> ms], out |-> out]
    /\ UNCHANGED <<upd, ref, app, fuzzy_threshold, ops, request,
                   source_accounts, target_accounts, matches, workbook,
                   chatbot, calls>>

NextRead == ExtractAccounts \/ VerifyUpdatesMade

SpecRead == InitRead /\ [][NextRead]_vars

----------------------------------------------------------------------------
(* Direct extraction from a sheet with cells that cannot be read *)

\* rows with a cell whose value or whose formatting cannot be read, and two
\* rows without
FaultRows ==
    { Row(Cell(Str(NameSalary), FALSE), Cell(Num(7), FALSE), Cell(Num(2), FALSE)),
      Row(Cell(Str(NameRental), FALSE), Cell(Num(3), FALSE), Cell(Num(4), FALSE)),
      Row(FaultyCell(Str(NameSalaryEx), FALSE, "value"),
          Cell(Num(1), FALSE), Cell(Num(2), FALSE)),
      Row(FaultyCell(Str(NameSalaryExp), TRUE, "format"),
          Cell(Num(1), FALSE), Cell(Num(2), FALSE)),
      Row(Cell(Str(NameCashEquivalents), FALSE),
          FaultyCell(Num(1), FALSE, "value"), Cell(Num(2), FALSE)) }

InitFault ==
    /\ upd \in SheetsOf(FaultRows)
    /\ ref = ScenarioRef
    /\ InSession
    /\ res = NoCall
    /\ ops = 0
    /\ source_accounts = <<>>
    /\ target_accounts = <<>>
    /\ matches = <<>>
    /\ workbook = Connected
    /\ chatbot = IdleChatBot
    /\ calls = <<>>

NextFault == ExtractAccounts

SpecFault == InitFault /\ [][NextFault]_vars

----------------------------------------------------------------------------
(* Calls on a workbook that may be out of reach *)

\* the workbook as it can be: both sheets there, one of them missing, or no
\* active workbook at all
Workbooks ==
    { Connected,
      [active |-> TRUE, sheets |-> {ToUpdateSheet}],
      [active |-> TRUE, sheets |-> {CorrectSheet}],
      [active |-> FALSE, sheets |-> {}] }

BookUpdRows ==
    { Row(Cell(Str(NameSalary), FALSE), Cell(None, FALSE), Cell(Num(5), FALSE)),
      Row(Cell(Str(NameSalaryEx), FALSE), Cell(Num(1), FALSE), LockedCell(Num(2))) }
BookRefRows ==
    { Row(Cell(Str(NameSalaryLower), FALSE), Cell(Num(7), FALSE), Cell(Num(6), TRUE)),
      Row(Cell(Str(NameRental), FALSE), Cell(Num(3), FALSE), Cell(Num(4), FALSE)) }

InitBook ==
    /\ \/ upd \in SheetsOf(BookUpdRows) /\ ref \in SheetsOf(BookRefRows)
       \/ upd = ScenarioUpd /\ ref = ScenarioRef
    /\ workbook \in Workbooks
    /\ chatbot = IdleChatBot
    /\ calls = <<>>
    /\ InSession
    /\ res = NoCall
    /\ ops = 0
    /\ source_accounts = <<>>
    /\ target_accounts = <<>>
    /\ matches = <<>>

NextBook == UpdateTrialBalance \/ AddNewAccounts

SpecBook == InitBook /\ [][NextBook]_vars

----------------------------------------------------------------------------
(* Direct calls of perform_fuzzy_matching *)

\* an account record with a name, at a row, without amounts
Account(name, row) ==
    [row_index |-> row - 1, excel_row |-> row, account_name |-> name,
     amount_1 |-> None, amount_2 |-> None]

\* the lists of at most MaxAccounts accounts with names of a set, at rows 2, 3, ...
AccountLists(names) ==
    UNION { { [i \in 1..n |-> Account(f[i], i + 1)] : f \in [1..n -> names] } :
            n \in 0..MaxAccounts }

SourceNames == {NameCash, NameSalaryEx, NameSalaryExp, NameSalaryBar}
TargetNames == {NameCashLower, NameCashEquivalents, NameSalary, NameSalaryLower}
MatchThresholds == {75, 76, DefaultThreshold, 101}

InitMatch ==
    /\ upd = ScenarioUpd
    /\ ref = ScenarioRef
    /\ app = Normal
    /\ request = RequestDefault
    /\ fuzzy_threshold \in MatchThresholds
    /\ res = NoCall
    /\ ops = 0
    /\ source_accounts \in AccountLists(SourceNames)
    /\ target_accounts \in AccountLists(TargetNames)
    /\ matches = <<>>
    /\ workbook = Connected
    /\ chatbot = IdleChatBot
    /\ calls = <<>>

PerformFuzzyMatching ==
    /\ res = NoCall
    /\ matches' = perform_fuzzy_matching(source_accounts, target_accounts, fuzzy_threshold)
    /\ res' = [op |-> "match"]
    /\ UNCHANGED <<upd, ref, app, fuzzy_threshold, ops, request,
                   source_accounts, target_accounts, workbook,
                   chatbot, calls>>

NextMatch == PerformFuzzyMatching

SpecMatch == InitMatch /\ [][NextMatch]_vars

----------------------------------------------------------------------------
(* Direct calls of the two column conversions *)

\* column strings passed to column_letter_to_index: letters in either case,
\* and strings with a digit, a space, or no character at all
ColumnStrings ==
    { <<"A">>, <<"Z">>, <<"a">>, <<"A","A">>, <<"X","F","D">>,
      <<"1">>, <<" ">>, <<>>, <<"A","1">>, <<" ","B">> }

InitColumns ==
    /\ upd = ScenarioUpd
    /\ ref = ScenarioRef
    /\ app = Normal
    /\ request = RequestDefault
    /\ fuzzy_threshold = DefaultThreshold
    /\ res = NoCall
    /\ ops = 0
    /\ source_accounts = <<>>
    /\ target_accounts = <<>>
    /\ matches = <<>>
    /\ workbook = Connected
    /\ chatbot = IdleChatBot
    /\ calls = <<>>

\* col_index_to_letter of an index, then column_letter_to_index of the letter
ColumnRoundTrip ==
    /\ res = NoCall
    /\ \E i \in 0..MaxColumnIndex :
          \E letter \in {col_index_to_letter(i)} :
              res' = [op |-> "column", args |-> i, letter |-> letter,
                      out |-> column_letter_to_index(letter)]
    /\ UNCHANGED <<upd, ref, app, fuzzy_threshold, ops, request,
                   source_accounts, target_accounts, matches, workbook,
                   chatbot, calls>>

\* column_letter_to_index of a string: it has no raise statement and ord()
\* is defined on every character, so it returns
ColumnLetterToIndex ==
    /\ res = NoCall
    /\ \E s \in ColumnStrings :
          res' = [op |-> "letter", args |-> s,
                  out |-> [raised |-> FALSE, index |-> column_letter_to_index(s)]]
    /\ UNCHANGED <<upd, ref, app, fuzzy_threshold, ops, request,
                   source_accounts, target_accounts, matches, workbook,
                   chatbot, calls>>

NextColumns == ColumnRoundTrip \/ ColumnLetterToIndex

SpecColumns == InitColumns /\ [][NextColumns]_vars

----------------------------------------------------------------------------
(* The GUI session: the GUI thread calls handle_excel_request while the worker
   thread executes run; every statement that reads or writes a field of the
   shared object is a step of its own *)

InitChat ==
    /\ upd = ScenarioUpd
    /\ ref = ScenarioRef
    /\ app = Normal
    /\ request = RequestDefault
    /\ fuzzy_threshold = DefaultThreshold
    /\ res = NoCall
    /\ ops = 0
    /\ source_accounts = <<>>
    /\ target_accounts = <<>>
    /\ matches = <<>>
    /\ workbook = Connected
    /\ chatbot = IdleChatBot
    /\ calls = <<>>

\* handle_excel_request, the assignment of self.current_request; the GUI
\* thread makes one call at a time
HandleExcelRequest ==
    /\ Len(calls) < MaxCalls
    /\ \A i \in 1..Len(calls) : calls[i].pc = "done"
    /\ \E request_type \in RequestTypes :
          \E r \in {NewRequest(request_type, Len(calls) + 1)} :
              /\ chatbot' = [chatbot EXCEPT !.current_request = r]
              /\ calls' = Append(calls, [request |-> r, by |-> "gui",
                                          running |-> IsRunning(chatbot),
                                          pc |-> "assigned"])
    /\ UNCHANGED <<upd, ref, app, fuzzy_threshold, res, ops, request,
                   source_accounts, target_accounts, matches, workbook>>

\* handle_excel_request, the isRunning test and the start
HandleStart ==
    /\ \E i \in 1..Len(calls) :
          /\ calls[i].pc = "assigned"
          /\ calls' = [calls EXCEPT ![i].pc = "done"]
    /\ chatbot' = StartIfNotRunning(chatbot)
    /\ UNCHANGED <<upd, ref, app, fuzzy_threshold, res, ops, request,
                   source_accounts, target_accounts, matches, workbook>>

\* run: `if not self.current_request: return`, then self.is_processing = True
RunEnter ==
    /\ \E k \in 1..Len(chatbot.runs) :
          /\ chatbot.runs[k].pc = "started"
          /\ chatbot' =
                 IF chatbot.current_request = NoRequest
                 THEN [chatbot EXCEPT !.runs[k].pc = "returned"]
                 ELSE [chatbot EXCEPT !.runs[k].pc = "entered", !.is_processing = TRUE]
    /\ UNCHANGED <<upd, ref, app, fuzzy_threshold, res, ops, request,
                   source_accounts, target_accounts, matches, workbook, calls>>

\* request_type = self.current_request['type']
RunReadType ==
    /\ \E k \in 1..Len(chatbot.runs) :
          /\ chatbot.runs[k].pc = "entered"
          /\ chatbot' = [chatbot EXCEPT !.runs[k].pc = "type_read",
                                        !.runs[k].request_type =
                                            chatbot.current_request.type]
    /\ UNCHANGED <<upd, ref, app, fuzzy_threshold, res, ops, request,
                   source_accounts, target_accounts, matches, workbook, calls>>

\* data = self.current_request['data']
RunReadData ==
    /\ \E k \in 1..Len(chatbot.runs) :
          /\ chatbot.runs[k].pc = "type_read"
          /\ chatbot' = [chatbot EXCEPT !.runs[k].pc = "data_read",
                                        !.runs[k].data = chatbot.current_request.data]
    /\ UNCHANGED <<upd, ref, app, fuzzy_threshold, res, ops, request,
                   source_accounts, target_accounts, matches, workbook, calls>>

\* the dispatch on request_type; handle_chat_message calls
\* handle_excel_request('analyze_structure') itself for a message with
\* 'analyze' in it, which, the thread running, only assigns current_request
RunDispatch ==
    /\ \E k \in 1..Len(chatbot.runs) :
          /\ chatbot.runs[k].pc = "data_read"
          /\ \E asks_analyze \in BOOLEAN :
                IF /\ asks_analyze
                   /\ chatbot.runs[k].request_type = "chat"
                   /\ Len(calls) < MaxCalls
                THEN \E r \in {NewRequest("analyze_structure", Len(calls) + 1)} :
                        /\ chatbot' = StartIfNotRunning(
                               [chatbot EXCEPT !.runs[k].pc = "dispatched",
                                               !.current_request = r])
                        /\ calls' = Append(calls, [request |-> r, by |-> "worker",
                                                    running |-> TRUE, pc |-> "done"])
                ELSE /\ chatbot' = [chatbot EXCEPT !.runs[k].pc = "dispatched"]
                     /\ calls' = calls
    /\ UNCHANGED <<upd, ref, app, fuzzy_threshold, res, ops, request,
                   source_accounts, target_accounts, matches, workbook>>

\* finally: self.is_processing = False, and run returns
RunReturn ==
    /\ \E k \in 1..Len(chatbot.runs) :
          /\ chatbot.runs[k].pc = "dispatched"
          /\ chatbot' = [chatbot EXCEPT !.runs[k].pc = "returned",
                                        !.is_processing = FALSE]
    /\ UNCHANGED <<upd, ref, app, fuzzy_threshold, res, ops, request,
                   source_accounts, target_accounts, matches, workbook, calls>>

\* the thread finishes after run has returned: isRunning() is false from here
ThreadFinished ==
    /\ \E k \in 1..Len(chatbot.runs) :
          /\ chatbot.runs[k].pc = "returned"
          /\ chatbot' = [chatbot EXCEPT !.runs[k].pc = "finished"]
    /\ UNCHANGED <<upd, ref, app, fuzzy_threshold, res, ops, request,
                   source_accounts, target_accounts, matches, workbook, calls>>

NextChat ==
    \/ HandleExcelRequest
    \/ HandleStart
    \/ RunEnter
    \/ RunReadType
    \/ RunReadData
    \/ RunDispatch
    \/ RunReturn
    \/ ThreadFinished

SpecChat == InitChat /\ [][NextChat]_vars

----------------------------------------------------------------------------
(* The repeated session: update_trial_balance, then add_new_accounts with the
   new_accounts it reported, then the same again on the sheets as they are *)

RunUpdate ==
    /\ ops < MaxRuns
    /\ res.op # "update"
    /\ \E r \in {update_trial_balance(workbook, upd, ref, app, fuzzy_threshold,
                    request.to_update_cols, request.correct_cols,
                    request.to_update_row_range, request.correct_row_range)} :
           /\ upd' = r.sheet
           /\ app' = r.settings
           /\ res' = [op     |-> "update",
                      prev   |-> res,
                      before |-> [upd |-> upd, app |-> app, ref |-> ref],
                      seen   |-> [to_update_accounts |-> r.to_update_accounts,
                                  correct_accounts   |-> r.correct_accounts,
                                  matches            |-> r.matches,
                                  raised             |-> r.raised,
                                  written            |-> r.written],
                      out    |-> r.result]
    /\ ops' = ops + 1
    /\ UNCHANGED <<ref, fuzzy_threshold, request,
                   source_accounts, target_accounts, matches, workbook,
                   chatbot, calls>>

RunAppend ==
    /\ ops < MaxRuns
    /\ res.op = "update"
    /\ res.out.status = "success"
    /\ \E fault \in HighlightFaults :
          \E r \in {add_new_accounts(workbook, upd, res.out.new_accounts,
                                     request.to_update_cols,
                                     request.append_row_range, fault)} :
              /\ upd' = r.sheet
              /\ res' = [op     |-> "add",
                         prev   |-> res,
                         before |-> [upd |-> upd, app |-> app, ref |-> ref],
                         args   |-> [new_accounts |-> res.out.new_accounts,
                                     fault        |-> fault],
                         out    |-> r.result]
    /\ ops' = ops + 1
    /\ UNCHANGED <<ref, app, fuzzy_threshold, request,
                   source_accounts, target_accounts, matches, workbook,
                   chatbot, calls>>

NextRepeat == RunUpdate \/ RunAppend

SpecRepeat == Init /\ [][NextRepeat]_vars

----------------------------------------------------------------------------
(* Properties *)

\* the column of the to-update sheet a letter of the request names
UpdColumn(field) == ExcelColumn(request.to_update_cols[field])

\* the matches of the last update_trial_balance call
UpdateMatches == res.seen.matches

\* C1: when update_trial_balance has returned, by success or by the error of
\* a write that raised inside the loop, screen_updating, display_alerts and
\* calculation each hold the value they had before the call.
C1_SettingsRestored ==
    res.op = "update" =>
        /\ app.screen_updating = res.before.app.screen_updating
        /\ app.display_alerts = res.before.app.display_alerts
        /\ app.calculation = res.before.app.calculation

\* a call that wrote a cell, then raised, with the settings not suspended before
C1_Witness ==
    /\ res.op = "update"
    /\ res.seen.raised
    /\ res.out.status = "error"
    /\ upd # res.before.upd
    /\ res.before.app = Normal
    /\ app = Normal

\* C2: for every match of an update_trial_balance call, an absent target
\* amount leaves the corresponding cell of the source row as it was before the
\* call, for the prior-year and for the current-year amount independently.
C2_AbsentAmountNotWritten ==
    res.op = "update" =>
        \A i \in 1..Len(UpdateMatches) :
            LET m == UpdateMatches[i]
                row == m.source_account.excel_row
            IN  /\ m.target_account.amount_2 = None =>
                       CellAt(upd, row, UpdColumn("prior_year"))
                           = CellAt(res.before.upd, row, UpdColumn("prior_year"))
                /\ m.target_account.amount_1 = None =>
                       CellAt(upd, row, UpdColumn("current_year"))
                           = CellAt(res.before.upd, row, UpdColumn("current_year"))

\* a successful call with a match whose prior-year amount is absent, whose row
\* held a prior-year value and got a new current-year value
C2_Witness ==
    /\ res.op = "update"
    /\ res.out.status = "success"
    /\ \E i \in 1..Len(UpdateMatches) :
          LET m == UpdateMatches[i]
              row == m.source_account.excel_row
          IN  /\ m.target_account.amount_2 = None
              /\ m.target_account.amount_1 # None
              /\ CellAt(upd, row, UpdColumn("prior_year")).value # None
              /\ CellAt(upd, row, UpdColumn("current_year"))
                     # CellAt(res.before.upd, row, UpdColumn("current_year"))

\* the positions in `matches` of the matches of the i-th source account
MatchesOfSource(i) ==
    {k \in 1..Len(matches) : matches[k].source_account = source_accounts[i]}

\* the i-th source account has the clean key of some target
HasExactTarget(i) ==
    \E j \in 1..Len(target_accounts) :
        CleanKey(target_accounts[j].account_name)
            = CleanKey(source_accounts[i].account_name)

\* C3: a source account whose clean key is the clean key of some target gets
\* exactly one match, of score 100, to a target with that clean key, whatever
\* the other targets and the threshold are.
C3_ExactMatchScores100 ==
    res.op = "match" =>
        \A i \in 1..Len(source_accounts) :
            HasExactTarget(i) =>
                /\ Cardinality(MatchesOfSource(i)) = 1
                /\ \A k \in MatchesOfSource(i) :
                      /\ matches[k].match_score = Score(100, 1)
                      /\ CleanKey(matches[k].target_account.account_name)
                             = CleanKey(source_accounts[i].account_name)

\* 'Cash' matched to 'cash' beside 'Cash Equivalents' under a threshold no
\* score reaches
C3_Witness ==
    /\ res.op = "match"
    /\ fuzzy_threshold > 100
    /\ \E k \in 1..Len(matches) :
          /\ matches[k].source_account.account_name = NameCash
          /\ matches[k].target_account.account_name = NameCashLower
    /\ \E j \in 1..Len(target_accounts) :
          target_accounts[j].account_name = NameCashEquivalents

\* the best similarity of the i-th source account over all targets reaches n
BestScoreAtLeast(i, n) ==
    \E j \in 1..Len(target_accounts) :
        ScoreAtLeast(Ratio(CleanKey(source_accounts[i].account_name),
                           CleanKey(target_accounts[j].account_name)), n)

\* C4: a source account without exact counterpart gets a match if and only if
\* its best similarity over all targets is at least fuzzy_threshold.
C4_ThresholdInclusive ==
    res.op = "match" =>
        \A i \in 1..Len(source_accounts) :
            ~HasExactTarget(i) =>
                (MatchesOfSource(i) # {} <=> BestScoreAtLeast(i, fuzzy_threshold))

\* a source account matched with a best score equal to the threshold
C4_Witness ==
    /\ res.op = "match"
    /\ \E i \in 1..Len(source_accounts) :
          /\ ~HasExactTarget(i)
          /\ BestScoreAtLeast(i, fuzzy_threshold)
          /\ ~BestScoreAtLeast(i, fuzzy_threshold + 1)
          /\ \E k \in MatchesOfSource(i) :
                matches[k].match_score = Score(fuzzy_threshold, 1)

\* a source account left unmatched with a best score one below the threshold
C4_WitnessBelow ==
    /\ res.op = "match"
    /\ \E i \in 1..Len(source_accounts) :
          /\ ~HasExactTarget(i)
          /\ BestScoreAtLeast(i, fuzzy_threshold - 1)
          /\ ~BestScoreAtLeast(i, fuzzy_threshold)
          /\ MatchesOfSource(i) = {}

\* the rows a direct extraction call ranges over
RowsInRange(sheet, bounds) ==
    {r \in 2..Len(sheet) :
        /\ bounds.start_row # NoArg => r >= bounds.start_row[1]
        /\ bounds.end_row # NoArg => r <= bounds.end_row[1]}

ExtractedRows == {res.out[k].excel_row : k \in 1..Len(res.out)}

\* the account-name cell of a row of the to-update sheet
NameCell(sheet, r) == CellAt(sheet, r, UpdColumn("account"))

\* the value is no text with surrounding whitespace
Unpadded(value) == value.kind = "str" => Strip(value.s) = value.s

\* the inclusion policy: a non-empty text, not bold, longer than 5 characters,
\* not starting with '^'
PolicyIncludes(cell) ==
    /\ cell.value.kind = "str"
    /\ cell.value.s # <<>>
    /\ ~cell.bold
    /\ Len(cell.value.s) > 5
    /\ cell.value.s[1] # "^"

\* C5: extract_accounts_from_sheet returns a row of its range if and only if
\* the account-name cell satisfies the inclusion policy, for names without
\* surrounding whitespace.
C5_InclusionPolicy ==
    res.op = "extract" =>
        \A r \in RowsInRange(upd, res.args) :
            Unpadded(NameCell(upd, r).value) =>
                (r \in ExtractedRows <=> PolicyIncludes(NameCell(upd, r)))

\* An extraction that took a non-bold 6-character name and left out a bold
\* 6-character name
C5_Witness ==
    /\ res.op = "extract"
    /\ \E r \in RowsInRange(upd, res.args) :
          /\ r \in ExtractedRows
          /\ Len(NameCell(upd, r).value.s) = 6
    /\ \E r \in RowsInRange(upd, res.args) :
          /\ r \notin ExtractedRows
          /\ NameCell(upd, r).bold
          /\ NameCell(upd, r).value = Str(NameSalary)

\* the reference accounts the last update_trial_balance call extracted
CorrectAccounts == res.seen.correct_accounts

IsNoTarget(acc) ==
    \A k \in 1..Len(UpdateMatches) : UpdateMatches[k].target_account # acc

HasNoTargetName(acc) ==
    \A k \in 1..Len(UpdateMatches) :
        LowerStripKey(UpdateMatches[k].target_account.account_name)
            # LowerStripKey(acc.account_name)

\* C6 as stated: new_accounts is exactly the reference accounts that are the
\* target of no match, in reference order.
C6_NewAccountsAreUnmatched ==
    (res.op = "update" /\ res.out.status = "success") =>
        res.out.new_accounts = SelectSeq(CorrectAccounts, IsNoTarget)

\* C6 as amended: new_accounts is exactly the reference accounts whose
\* lower-cased, trimmed name is the name of no match target, in reference
\* order; so no match target and no to-update account is in it, and a
\* reference account that is the target of no match is in it unless it
\* shares that name with a match target.
C6_NewAccountsByName ==
    (res.op = "update" /\ res.out.status = "success") =>
        /\ res.out.new_accounts = SelectSeq(CorrectAccounts, HasNoTargetName)
        /\ \A k \in 1..Len(res.out.new_accounts) :
              /\ IsNoTarget(res.out.new_accounts[k])
              /\ \E j \in 1..Len(CorrectAccounts) :
                    CorrectAccounts[j] = res.out.new_accounts[k]
        /\ res.out.new_accounts_found = Len(res.out.new_accounts)

\* a successful call after which one reference account is new and another is
\* the target of a fuzzy match
C6_Witness ==
    /\ res.op = "update"
    /\ res.out.status = "success"
    /\ res.out.new_accounts # <<>>
    /\ \E k \in 1..Len(UpdateMatches) : UpdateMatches[k].match_score # Score(100, 1)

\* the list, the last used row and the column mapping of the last
\* add_new_accounts call
Added == res.args.new_accounts
RowBefore == Len(res.before.upd)

\* C7: add_new_accounts with n accounts on a sheet whose last used row is L
\* writes the i-th account to row L+i, one row per account without gap or
\* reuse, whether or not an amount is absent; highlighted_rows is
\* [L+1, ..., L+n], accounts_added is n, and no row up to L changes.
C7_AppendRows ==
    res.op = "add" =>
        /\ res.out.accounts_added = Len(Added)
        /\ res.out.highlighted_rows = [i \in 1..Len(Added) |-> RowBefore + i]
        /\ Len(upd) = RowBefore + Len(Added)
        /\ \A r \in 1..RowBefore : upd[r] = res.before.upd[r]
        /\ \A i \in 1..Len(Added) :
              /\ NameCell(upd, RowBefore + i).value = Str(Added[i].account_name)
              /\ CellAt(upd, RowBefore + i, UpdColumn("current_year")).value
                     = Added[i].amount_1
              /\ CellAt(upd, RowBefore + i, UpdColumn("prior_year")).value
                     = Added[i].amount_2

\* two accounts appended below row 3, the first with an absent amount
C7_Witness ==
    /\ res.op = "add"
    /\ RowBefore = 3
    /\ Len(Added) = 2
    /\ Added[1].amount_2 = None
    /\ Added[2].amount_1 # None
    /\ res.out.highlighted_rows = <<4, 5>>

\* the matches a direct verify_updates_made call was given
Verified == res.args.matches

\* the amount a match expects in a field, and the value read back
Expected(m, field) ==
    IF field = "current_year" THEN m.target_account.amount_1
    ELSE m.target_account.amount_2
ReadBack(m, field) == CellAt(upd, m.source_account.excel_row, UpdColumn(field)).value

Differs(m, field) == Expected(m, field) # None /\ ReadBack(m, field) # Expected(m, field)

\* the items of failed_updates for a field of a match
FailureItems(m, field) ==
    {j \in 1..Len(res.out.failed_updates) :
        /\ res.out.failed_updates[j].row = m.source_account.excel_row
        /\ res.out.failed_updates[j].column = field}

AmountFields == {"current_year", "prior_year"}

\* C8: verify_updates_made reports verified exactly when no field with a
\* present expected amount reads back differently; a field whose expected
\* amount is absent is not checked; each differing field yields one failure
\* item with the source row, the field, the expected and the read value.
C8_VerificationReport ==
    res.op = "verify" =>
        /\ res.out.verified <=>
              \A k \in 1..Len(Verified) : \A f \in AmountFields : ~Differs(Verified[k], f)
        /\ \A k \in 1..Len(Verified) : \A f \in AmountFields :
              IF Differs(Verified[k], f)
              THEN /\ Cardinality(FailureItems(Verified[k], f)) = 1
                   /\ \A j \in FailureItems(Verified[k], f) :
                         /\ res.out.failed_updates[j].expected = Expected(Verified[k], f)
                         /\ res.out.failed_updates[j].actual = ReadBack(Verified[k], f)
              ELSE FailureItems(Verified[k], f) = {}

\* a report with a failure item for a differing field, beside a field with an
\* absent expected amount whose cell holds a value
C8_Witness ==
    /\ res.op = "verify"
    /\ ~res.out.verified
    /\ \E k \in 1..Len(Verified) :
          /\ Differs(Verified[k], "current_year")
          /\ Expected(Verified[k], "prior_year") = None
          /\ ReadBack(Verified[k], "prior_year") # None
          /\ FailureItems(Verified[k], "prior_year") = {}

\* C9: on the end-to-end scenario update_trial_balance produces one match of
\* score 100, leaves row 5 with current 2500 and prior 2100, returns no new
\* account and a verification that passed.
C9_EndToEnd ==
    (res.op = "update" /\ res.before.upd = ScenarioUpd /\ ref = ScenarioRef) =>
        /\ res.out.status = "success"
        /\ Len(res.out.matches) = 1
        /\ res.out.matches[1].match_score = Score(100, 1)
        /\ res.out.matches[1].source_account.excel_row = 5
        /\ CellAt(upd, 5, UpdColumn("current_year")).value = Num(2500)
        /\ CellAt(upd, 5, UpdColumn("prior_year")).value = Num(2100)
        /\ res.out.new_accounts = <<>>
        /\ res.out.verification.verified

\* the scenario has run
C9_Witness ==
    /\ res.op = "update"
    /\ res.before.upd = ScenarioUpd
    /\ ref = ScenarioRef
    /\ res.out.updates_made = 1

\* C10: after add_new_accounts has written and highlighted its rows without
\* error, with no row range, its verification finds every appended account:
\* verified is true and missing_accounts is empty.
C10_AppendVerified ==
    (res.op = "add" /\ res.out.status = "success" /\ request.append_row_range = NoArg) =>
        /\ res.out.verification.verified
        /\ res.out.verification.missing_accounts = <<>>

----------------------------------------------------------------------------
(* Properties of repeated calls, failures and column addressing *)

\* what a match pairs: the source row and name, the target account, the score
MatchPairs(ms) ==
    [i \in 1..Len(ms) |->
        [source_row  |-> ms[i].source_account.excel_row,
         source_name |-> ms[i].source_account.account_name,
         target      |-> ms[i].target_account,
         score       |-> ms[i].match_score,
         source_name_cleaned |-> ms[i].source_name_cleaned,
         target_name_cleaned |-> ms[i].target_name_cleaned]]

\* a step that is an update_trial_balance call made right after another one
SecondUpdate == res.op = "update" /\ res'.op = "update" /\ ops' = ops + 1

\* C11 as stated: the second of two successive update_trial_balance calls
\* leaves every cell of both sheets as the first left it and returns the
\* same matches and the same new_accounts.
C11_SecondCallSameMatches ==
    [][SecondUpdate =>
          /\ upd' = upd
          /\ ref' = ref
          /\ res'.out.status = res.out.status
          /\ res.out.status = "success" =>
                 /\ res'.out.matches = res.out.matches
                 /\ res'.out.new_accounts = res.out.new_accounts]_vars

\* C11: the second of two successive update_trial_balance calls leaves every
\* cell of both sheets as the first left it, ends with the same status, and
\* returns matches that pair the same source rows with the same target
\* accounts at the same scores, and the same new_accounts; the source_account
\* of a match carries the amounts the sheet holds when the call extracts it.
C11_SecondCallSamePairs ==
    [][SecondUpdate =>
          /\ upd' = upd
          /\ ref' = ref
          /\ res'.out.status = res.out.status
          /\ res.out.status = "success" =>
                 /\ MatchPairs(res'.out.matches) = MatchPairs(res.out.matches)
                 /\ res'.out.new_accounts = res.out.new_accounts
                 /\ \A i \in 1..Len(res'.out.matches) :
                        LET s == res'.out.matches[i].source_account
                        IN  /\ s.amount_1 = AmountOf(upd, UpdColumn("current_year") - 1,
                                                     s.excel_row)
                            /\ s.amount_2 = AmountOf(upd, UpdColumn("prior_year") - 1,
                                                     s.excel_row)]_vars

\* a second update_trial_balance call right after a first one that wrote an
\* amount: the cell already holds the amount of the target
C11_Witness ==
    /\ res.op = "update"
    /\ res.after = "update"
    /\ res.out.status = "success"
    /\ upd = res.before.upd
    /\ \E i \in 1..Len(res.out.matches) :
          LET m == res.out.matches[i]
          IN  /\ m.target_account.amount_1 # None
              /\ m.source_account.amount_1 = m.target_account.amount_1

\* the writes of a match are on the to-update sheet
MatchApplied(m) ==
    LET row == m.source_account.excel_row
    IN  /\ m.target_account.amount_1 # None =>
               CellAt(upd, row, UpdColumn("current_year")).value = m.target_account.amount_1
        /\ m.target_account.amount_2 # None =>
               CellAt(upd, row, UpdColumn("prior_year")).value = m.target_account.amount_2

\* a write of the match would raise: one of the cells it writes is protected
MatchBlocked(m) ==
    LET row == m.source_account.excel_row
    IN  \/ AmountRaises(res.before.upd, row, UpdColumn("current_year"),
                        m.target_account.amount_1)
        \/ AmountRaises(res.before.upd, row, UpdColumn("prior_year"),
                        m.target_account.amount_2)

\* C12: when the write for one match raises inside the loop of
\* update_trial_balance, the call still returns its normal result, with a
\* verification that is not verified and itemizes the mismatch, and every
\* match whose writes do not raise has been applied.
C12_WriteFailureRecorded ==
    (res.op = "update" /\ res.seen.raised) =>
        /\ res.out.status = "success"
        /\ ~res.out.verification.verified
        /\ res.out.verification.failed_updates # <<>>
        /\ \A i \in 1..Len(UpdateMatches) :
               ~MatchBlocked(UpdateMatches[i]) => MatchApplied(UpdateMatches[i])

\* a read of the value or of the formatting of a cell of the row fails
RowReadFails(sheet, r) ==
    \E field \in {"account", "current_year", "prior_year"} :
        CellAt(sheet, r, UpdColumn(field)).fault # "none"

\* C13: when a read of the value or of the formatting of a row fails during
\* extract_accounts_from_sheet, only that row is skipped: the row is not
\* returned, and every row of the range that satisfies the inclusion policy
\* and whose reads succeed is returned.
C13_OnlyFailedRowSkipped ==
    res.op = "extract" =>
        \A r \in RowsInRange(upd, res.args) :
            IF RowReadFails(upd, r) THEN r \notin ExtractedRows
            ELSE PolicyIncludes(NameCell(upd, r)) => r \in ExtractedRows

\* C14: when no active workbook is reachable, or one of the two named sheets
\* cannot be reached, update_trial_balance returns an error outcome and has
\* written no cell; it does not return a success result.
C14_UnreachableFailsRun ==
    (/\ res.op = "update"
     /\ \/ ~SheetReachable(workbook, ToUpdateSheet)
        \/ ~SheetReachable(workbook, CorrectSheet)) =>
        /\ res.out.status = "error"
        /\ upd = res.before.upd

\* C15: when the highlighting raises after add_new_accounts has written its
\* rows, the call returns status 'partial_success' with accounts_added and
\* highlighted_rows, and every name and amount written to the appended rows
\* is still in the sheet.
C15_HighlightFailureKeepsRows ==
    (res.op = "add" /\ res.args.fault # "none" /\ Added # <<>>) =>
        /\ res.out.status = "partial_success"
        /\ res.out.accounts_added = Len(Added)
        /\ res.out.highlighted_rows = [i \in 1..Len(Added) |-> RowBefore + i]
        /\ \A i \in 1..Len(Added) :
               /\ NameCell(upd, RowBefore + i).value = Str(Added[i].account_name)
               /\ Added[i].amount_1 # None =>
                      CellAt(upd, RowBefore + i, UpdColumn("current_year")).value
                          = Added[i].amount_1
               /\ Added[i].amount_2 # None =>
                      CellAt(upd, RowBefore + i, UpdColumn("prior_year")).value
                          = Added[i].amount_2

\* two accounts with amounts appended, the highlighting raising at its first
\* cell
C15_Witness ==
    /\ res.op = "add"
    /\ res.args.fault = "first_cell"
    /\ Len(Added) = 2
    /\ res.out.status = "partial_success"
    /\ Len(upd) = RowBefore + 2
    /\ Added[2].amount_1 # None
    /\ CellAt(upd, RowBefore + 2, UpdColumn("current_year")).value = Added[2].amount_1
    /\ ~NameCell(upd, RowBefore + 2).bold

\* C16: for every 0-based column index i up to the last column,
\* column_letter_to_index(col_index_to_letter(i)) = i; index 25 is 'Z' and
\* index 26 is 'AA'.
C16_ColumnRoundTrip ==
    res.op = "column" =>
        /\ res.out = res.args
        /\ res.args = 25 => res.letter = <<"Z">>
        /\ res.args = 26 => res.letter = <<"A","A">>
        /\ res.args = 701 => res.letter = <<"Z","Z">>
        /\ res.args = 702 => res.letter = <<"A","A","A">>

\* index 26 converted to 'AA' and back
C16_Witness ==
    /\ res.op = "column"
    /\ res.args = 26
    /\ res.letter = <<"A","A">>
    /\ res.out = 26

\* the string is empty or has a character that is no letter; a lower-case
\* letter, which the code upper-cases, is not counted as invalid here
HasInvalidColumnChar(s) ==
    s = <<>> \/ \E k \in 1..Len(s) : ~IsUpper(s[k]) /\ ~IsLower(s[k])

\* C17: column_letter_to_index fails for every column string with a
\* character outside A-Z (a digit, a space, the empty string) and returns no
\* index for it.
C17_InvalidColumnRejected ==
    (res.op = "letter" /\ HasInvalidColumnChar(res.args)) => res.out.raised

\* C18: new_accounts is the difference by clean key: no account of
\* new_accounts has the clean key (name with '|' removed, trimmed,
\* lower-cased) of the target of a match.
C18_NewAccountsByCleanKey ==
    (res.op = "update" /\ res.out.status = "success") =>
        \A k \in 1..Len(res.out.new_accounts) :
            \A i \in 1..Len(res.out.matches) :
                CleanKey(res.out.new_accounts[k].account_name)
                    # CleanKey(res.out.matches[i].target_account.account_name)

\* C19: the length test of the inclusion policy uses the trimmed name: no
\* row whose account name has 5 or fewer characters after removing the
\* surrounding whitespace is returned by extract_accounts_from_sheet.
C19_TrimmedLengthTest ==
    res.op = "extract" =>
        \A k \in 1..Len(res.out) : Len(Strip(res.out[k].account_name)) > MinNameLen

\* C20: the matches of a run are in source order with at most one match per
\* source account, so no cell of the to-update sheet is assigned twice in
\* one update_trial_balance run, and every assigned cell is an amount cell
\* of the row of a match.
C20_OneWritePerCell ==
    res.op = "update" =>
        /\ \A i \in 1..Len(UpdateMatches) :
               \E k \in 1..Len(res.seen.to_update_accounts) :
                   res.seen.to_update_accounts[k] = UpdateMatches[i].source_account
        /\ \A i, j \in 1..Len(UpdateMatches) :
               i < j => UpdateMatches[i].source_account.excel_row
                            < UpdateMatches[j].source_account.excel_row
        /\ \A a, b \in 1..Len(res.seen.written) :
               a < b => res.seen.written[a] # res.seen.written[b]
        /\ \A a \in 1..Len(res.seen.written) :
               /\ \E i \in 1..Len(UpdateMatches) :
                      UpdateMatches[i].source_account.excel_row = res.seen.written[a].row
               /\ res.seen.written[a].column
                      \in {UpdColumn("current_year"), UpdColumn("prior_year")}

\* a run with two matches that assigned both amount cells of two rows
C20_Witness ==
    /\ res.op = "update"
    /\ Len(UpdateMatches) = 2
    /\ Len(res.seen.written) = 4
    /\ res.out.status = "success"

----------------------------------------------------------------------------
(* Properties of ties, frames, appends and repeated runs *)

\* the similarity of the source of the k-th match to the j-th target
ScoreTo(k, j) ==
    Ratio(CleanKey(matches[k].source_account.account_name),
          CleanKey(target_accounts[j].account_name))

\* the targets with the maximum similarity to the source of the k-th match
BestTargets(k) ==
    {j \in 1..Len(target_accounts) :
        \A h \in 1..Len(target_accounts) : ~ScoreGreater(ScoreTo(k, h), ScoreTo(k, j))}

\* the k-th match came from the fuzzy path: no target has the source's clean key
IsFuzzyMatch(k) ==
    \A j \in 1..Len(target_accounts) :
        CleanKey(target_accounts[j].account_name)
            # CleanKey(matches[k].source_account.account_name)

\* C21: on the fuzzy path, when several targets share the maximum similarity
\* for a source, the match is to the first of them in target order.
C21_FuzzyTieFirstWins ==
    res.op = "match" =>
        \A k \in 1..Len(matches) :
            IsFuzzyMatch(k) =>
                \E j \in BestTargets(k) :
                    /\ \A h \in BestTargets(k) : j <= h
                    /\ matches[k].target_account = target_accounts[j]

\* 'Salary Ex' with the two targets 'Salary' and 'salary', both of score 80,
\* matched to the first
C21_Witness ==
    /\ res.op = "match"
    /\ \E k \in 1..Len(matches) :
          /\ IsFuzzyMatch(k)
          /\ BestTargets(k) = {1, 2}
          /\ matches[k].source_account.account_name = NameSalaryEx
          /\ matches[k].target_account = target_accounts[1]
          /\ target_accounts[1].account_name # target_accounts[2].account_name

\* the row is the source row of a match of the last update_trial_balance call
IsMatchedRow(r) ==
    \E i \in 1..Len(UpdateMatches) : UpdateMatches[i].source_account.excel_row = r

\* C22: update_trial_balance changes no cell other than the current-year and
\* prior-year cells of to-update rows that are the source of a match, and of
\* those only the value: the reference sheet, every account-name cell and the
\* amount cells of every row without a match are as before the call.
C22_UpdateFrame ==
    res.op = "update" =>
        /\ ref = res.before.ref
        /\ Len(upd) = Len(res.before.upd)
        /\ \A r \in 1..Len(upd) : \A c \in 1..NCols :
               upd[r][c] # res.before.upd[r][c] =>
                   /\ c \in {UpdColumn("current_year"), UpdColumn("prior_year")}
                   /\ IsMatchedRow(r)
                   /\ upd[r][c] = [res.before.upd[r][c] EXCEPT !.value = upd[r][c].value]

\* a run that changed the amounts of a matched row beside an extracted row
\* without a match
C22_Witness ==
    /\ res.op = "update"
    /\ res.out.status = "success"
    /\ upd # res.before.upd
    /\ \E k \in 1..Len(res.seen.to_update_accounts) :
          ~IsMatchedRow(res.seen.to_update_accounts[k].excel_row)

\* the first match of the last call one of whose writes raises
FirstBlocked(k) ==
    /\ k \in 1..Len(UpdateMatches)
    /\ MatchBlocked(UpdateMatches[k])
    /\ \A i \in 1..(k - 1) : ~MatchBlocked(UpdateMatches[i])

\* C23: when the write for the k-th match fails during update_trial_balance,
\* the cells already written for matches 1..k-1, and the current-year cell of
\* match k when it is the prior-year write that fails, keep their new values,
\* and the call returns an error status whose verification is not verified.
C23_PartialWritesKept ==
    (res.op = "update" /\ res.seen.raised) =>
        /\ res.out.status = "error"
        /\ ~res.out.verification.verified
        /\ \A n \in 1..Len(res.seen.written) :
               LET w == res.seen.written[n]
               IN  \E i \in 1..Len(UpdateMatches) :
                       LET m == UpdateMatches[i]
                       IN  /\ m.source_account.excel_row = w.row
                           /\ CellAt(upd, w.row, w.column).value =
                                  (IF w.column = UpdColumn("current_year")
                                   THEN m.target_account.amount_1
                                   ELSE m.target_account.amount_2)
        /\ \A k \in 1..Len(UpdateMatches) :
               FirstBlocked(k) =>
                   \A i \in 1..(k - 1) : MatchApplied(UpdateMatches[i])

\* the second match of a call failed after the first match changed its row
C23_Witness ==
    /\ res.op = "update"
    /\ res.seen.raised
    /\ FirstBlocked(2)
    /\ MatchApplied(UpdateMatches[1])
    /\ upd[UpdateMatches[1].source_account.excel_row] #
           res.before.upd[UpdateMatches[1].source_account.excel_row]

\* C24: across successive add_new_accounts calls on the same sheet, each call
\* takes the last used row of the sheet as it is at that call and writes only
\* below it: every cell at or above that row, the rows appended by earlier
\* calls included, is as it was before the call, and the accounts of the call
\* are in the rows that follow, one row each, in order.
C24_AppendsBelowLastRow ==
    (res.op = "add" /\ res.out.status # "error") =>
        /\ Len(upd) = Len(res.before.upd) + Len(res.args.new_accounts)
        /\ \A r \in 1..Len(res.before.upd) : upd[r] = res.before.upd[r]
        /\ \A i \in 1..Len(res.args.new_accounts) :
               CellAt(upd, Len(res.before.upd) + i, UpdColumn("account")).value =
                   Str(res.args.new_accounts[i].account_name)

\* a second call that appended accounts below the rows appended by the first
C24_Witness ==
    /\ res.op = "add"
    /\ res.after = "add"
    /\ res.out.status = "success"
    /\ Len(res.args.new_accounts) >= 1
    /\ Len(res.before.upd) > 1 + DataRows
    /\ Len(upd) > Len(res.before.upd)

\* the amount a record holds for a field of the mapping
RecordAmount(account, field) ==
    IF field = "current_year" THEN account.amount_1 ELSE account.amount_2

\* C25: for every row extract_accounts_from_sheet returns, each of the two
\* amounts depends on its own cell only: absent (None, not zero) when that
\* cell is bold, and the value of the cell, empty or not, when it is not bold.
C25_AmountsIndependent ==
    res.op = "extract" =>
        \A k \in 1..Len(res.out) :
            \A field \in AmountFields :
                LET cell == CellAt(upd, res.out[k].excel_row, UpdColumn(field))
                IN  RecordAmount(res.out[k], field) =
                        (IF cell.bold THEN None ELSE cell.value)

\* a returned row with one bold amount cell that holds a number and one
\* amount cell that is not bold, beside a returned row with an empty amount
C25_Witness ==
    /\ res.op = "extract"
    /\ \E k \in 1..Len(res.out) :
          \E f, g \in AmountFields :
              /\ CellAt(upd, res.out[k].excel_row, UpdColumn(f)).bold
              /\ CellAt(upd, res.out[k].excel_row, UpdColumn(f)).value # None
              /\ RecordAmount(res.out[k], f) = None
              /\ ~CellAt(upd, res.out[k].excel_row, UpdColumn(g)).bold
              /\ RecordAmount(res.out[k], g) # None
    /\ \E k \in 1..Len(res.out) :
          \E f \in AmountFields :
              /\ ~CellAt(upd, res.out[k].excel_row, UpdColumn(f)).bold
              /\ RecordAmount(res.out[k], f) = None

\* the first and the last row a call with these bounds may return
LowestRow(bounds) ==
    IF bounds.start_row = NoArg \/ bounds.start_row[1] < 2 THEN 2
    ELSE bounds.start_row[1]
HighestRow(sheet, bounds) ==
    IF bounds.end_row = NoArg \/ bounds.end_row[1] > Len(sheet) THEN Len(sheet)
    ELSE bounds.end_row[1]

\* C26: extract_accounts_from_sheet returns its records in strictly ascending
\* row number, only for rows from max(2, start_row) to min(last used row,
\* end_row): row 1 is never returned whatever start_row is, and an end below
\* the start gives an empty result.
C26_RowsAscendingInRange ==
    res.op = "extract" =>
        /\ \A k, l \in 1..Len(res.out) :
               k < l => res.out[k].excel_row < res.out[l].excel_row
        /\ \A k \in 1..Len(res.out) :
               /\ res.out[k].excel_row >= LowestRow(res.args)
               /\ res.out[k].excel_row <= HighestRow(upd, res.args)
               /\ res.out[k].excel_row # 1
        /\ HighestRow(upd, res.args) < LowestRow(res.args) => res.out = <<>>

\* a call with start_row 1 over a header row that meets the inclusion policy
\* returned the row below it
C26_Witness ==
    /\ res.op = "extract"
    /\ res.args.start_row = Arg(1)
    /\ PolicyIncludes(NameCell(upd, 1))
    /\ res.out # <<>>
    /\ res.out[1].excel_row = 2

\* the match a to-update account of the last call gets when it is matched
\* alone against the reference accounts of the call
MatchAlone(s) ==
    perform_fuzzy_matching(<<s>>, res.seen.correct_accounts, fuzzy_threshold)

\* the match is among the matches of the last call
IsUpdateMatch(m) == \E i \in 1..Len(UpdateMatches) : UpdateMatches[i] = m

\* C27: a reference row is not consumed by a match: when two different
\* to-update rows of one update_trial_balance run both match the same
\* reference row, by equal clean key or by best score at or above the
\* threshold, both get their match to that row, and when no write raises both
\* rows hold the present amounts of that reference row.
C27_ReferenceRowNotConsumed ==
    res.op = "update" =>
        \A a, b \in 1..Len(res.seen.to_update_accounts) :
            LET ma == MatchAlone(res.seen.to_update_accounts[a])
                mb == MatchAlone(res.seen.to_update_accounts[b])
            IN  (/\ a # b
                 /\ ma # <<>>
                 /\ mb # <<>>
                 /\ ma[1].target_account = mb[1].target_account) =>
                    /\ IsUpdateMatch(ma[1])
                    /\ IsUpdateMatch(mb[1])
                    /\ ~res.seen.raised => (MatchApplied(ma[1]) /\ MatchApplied(mb[1]))

\* two rows matched to one reference row, one by its clean key and one by its
\* score, and both changed by the run
C27_Witness ==
    /\ res.op = "update"
    /\ res.out.status = "success"
    /\ Len(UpdateMatches) = 2
    /\ UpdateMatches[1].target_account = UpdateMatches[2].target_account
    /\ UpdateMatches[1].match_score # UpdateMatches[2].match_score
    /\ \A i \in 1..2 :
          /\ MatchApplied(UpdateMatches[i])
          /\ upd[UpdateMatches[i].source_account.excel_row] #
                 res.before.upd[UpdateMatches[i].source_account.excel_row]

\* the targets that have the clean key of the source of the k-th match
KeyTargets(k) ==
    {j \in 1..Len(target_accounts) :
        CleanKey(target_accounts[j].account_name)
            = CleanKey(matches[k].source_account.account_name)}

\* C28: on the exact-match path of perform_fuzzy_matching, when several
\* targets share the clean key of the source, the match is to the last of
\* them in target order, unlike the fuzzy path, where the first of equally
\* scored targets wins.
C28_ExactLastWins ==
    res.op = "match" =>
        \A k \in 1..Len(matches) :
            KeyTargets(k) # {} =>
                \E j \in KeyTargets(k) :
                    /\ \A h \in KeyTargets(k) : h <= j
                    /\ matches[k].target_account = target_accounts[j]

\* 'Sal|ary' with the two targets 'Salary' and 'salary', both of clean key
\* 'salary', matched to the second
C28_Witness ==
    /\ res.op = "match"
    /\ \E k \in 1..Len(matches) :
          /\ KeyTargets(k) = {1, 2}
          /\ matches[k].source_account.account_name = NameSalaryBar
          /\ target_accounts[1].account_name = NameSalary
          /\ target_accounts[2].account_name = NameSalaryLower
          /\ matches[k].target_account = target_accounts[2]

\* the last call is an add_new_accounts that wrote and highlighted its rows
\* without error
AppendedHighlighted(call) == call.op = "add" /\ call.out.status = "success"

\* the last call is a successful update_trial_balance that follows such an
\* append, itself called with the new_accounts of a successful update
IsSecondUpdate(call) ==
    /\ call.op = "update"
    /\ call.out.status = "success"
    /\ AppendedHighlighted(call.prev)

\* the rows of the to-update sheet the call extracted
RowsSeen(call) ==
    {call.seen.to_update_accounts[k].excel_row :
        k \in 1..Len(call.seen.to_update_accounts)}

\* C29: rows appended by add_new_accounts with successful highlighting have a
\* bold account-name cell and are returned by no later extraction of the
\* sheet; so the update_trial_balance that follows reports the same
\* new_accounts as the one before the append, and the append that follows it
\* writes the same accounts a second time, in new rows.
C29_AppendedRowsReportedAgain ==
    /\ AppendedHighlighted(res) =>
           \A i \in 1..Len(res.out.highlighted_rows) :
               NameCell(upd, res.out.highlighted_rows[i]).bold
    /\ (res.op = "update" /\ AppendedHighlighted(res.prev)) =>
           \A i \in 1..Len(res.prev.out.highlighted_rows) :
               res.prev.out.highlighted_rows[i] \notin RowsSeen(res)
    /\ IsSecondUpdate(res) =>
           res.out.new_accounts = res.prev.prev.out.new_accounts
    /\ (res.op = "add" /\ res.out.status # "error" /\ IsSecondUpdate(res.prev)) =>
           /\ res.args.new_accounts = res.prev.prev.args.new_accounts
           /\ \A i \in 1..Len(res.args.new_accounts) :
                  /\ NameCell(upd, res.prev.prev.out.highlighted_rows[i]).value =
                         Str(res.args.new_accounts[i].account_name)
                  /\ NameCell(upd, res.out.highlighted_rows[i]).value =
                         Str(res.args.new_accounts[i].account_name)
                  /\ res.out.highlighted_rows[i] >
                         res.prev.prev.out.highlighted_rows[i]

\* update, append, update, append: the second append wrote, below the rows of
\* the first, the account the first had written
C29_Witness ==
    /\ AppendedHighlighted(res)
    /\ IsSecondUpdate(res.prev)
    /\ Len(res.args.new_accounts) >= 1
    /\ res.prev.out.new_accounts = res.prev.prev.prev.out.new_accounts
    /\ NameCell(upd, res.out.highlighted_rows[1]).value =
           NameCell(upd, res.prev.prev.out.highlighted_rows[1]).value
    /\ res.out.highlighted_rows[1] > res.prev.prev.out.highlighted_rows[1]

\* the runs that have dispatched, and what the k-th run dispatched
DispatchedRuns ==
    {k \in 1..Len(chatbot.runs) :
        chatbot.runs[k].pc \in {"dispatched", "returned", "finished"}}
Dispatched(k) ==
    [type |-> chatbot.runs[k].request_type, data |-> chatbot.runs[k].data]

\* at most one run of the worker executes at a time
OneRunAtATime ==
    Cardinality({k \in 1..Len(chatbot.runs) : chatbot.runs[k].pc # "finished"}) <= 1

\* every run dispatches one request, as one of the calls made it
DispatchesOneRequest ==
    \A k \in DispatchedRuns :
        \E i \in 1..Len(calls) : calls[i].request = Dispatched(k)

\* a request submitted while the thread was running is dispatched by no run,
\* unless a later call arrived when the thread had finished
OverwritingRequestDropped ==
    \A i \in 1..Len(calls) :
        (calls[i].running /\ \E k \in DispatchedRuns : Dispatched(k) = calls[i].request) =>
            \E j \in (i + 1)..Len(calls) : ~calls[j].running

\* C30: in the GUI worker ExcelChatBot, handle_excel_request starts a run only
\* when the thread is not running, so at most one run executes at a time, and
\* each run dispatches a single request, the one held in current_request when
\* run reads it; a request submitted while a run is in progress only
\* overwrites current_request and is never dispatched unless a later
\* handle_excel_request call arrives after the thread has finished.
C30_OneRequestPerRun ==
    /\ OneRunAtATime
    /\ DispatchesOneRequest
    /\ OverwritingRequestDropped

====
